---- MODULE Spec2Model ----
(***************************************************************************)
(* smugVision: the batch orchestrator (ImageProcessor.process_album /      *)
(* process_image), the custom-location matcher (LocationResolver), the     *)
(* cached reverse geocoder, the face recognizer with its encoding cache,   *)
(* the tag formatter of the preview and the singletons of the web          *)
(* application.                                                            *)
(*                                                                         *)
(* The specifications of the module:                                       *)
(*   Spec          one ImageProcessor running process_album, then running  *)
(*                 it again, against one album of the host;                *)
(*   SpecMatch     LocationResolver.find_match over loaded region lists;   *)
(*   SpecGeo       reverse_geocode_optimized, reverse_geocode and          *)
(*                 search_nearby_pois_overpass with the module cache and   *)
(*                 the clock;                                              *)
(*   SpecCache     the same geocoder with answers that fill the cache;     *)
(*   SpecFaces     FaceRecognizer.load_reference_faces and the two cache   *)
(*                 files, with restarts and changes of the directory;      *)
(*   SpecIdentify  FaceRecognizer.identify_faces;                          *)
(*   SpecTags      PreviewService._format_tags;                            *)
(*   SpecWeb       request threads in get_preview_service and              *)
(*                 PreviewService.face_recognizer;                         *)
(*   SpecLocate    the GPS step of process_image;                          *)
(*   SpecParts     the location string reverse_geocode_optimized builds;   *)
(*   SpecShared    batches in threads using get_resolver and the geocode   *)
(*                 cache;                                                  *)
(*   SpecPreview   one PreviewJob under process_preview streams and        *)
(*                 commit_changes;                                         *)
(*   SpecFetch     the download of items into the image cache directory.   *)
(* Each keeps the variables of the others at their initial values.         *)
(***************************************************************************)
EXTENDS Integers, Sequences, FiniteSets, TLC

VARIABLES
    \* ---- Spec: host, processor and batch ----
    host,        \* image key -> the host's record of the image
    dry_run,     \* ImageProcessor.dry_run, set by the constructor
    cached,      \* image keys whose file is in the local album cache directory
    pc,          \* position of process_album
    rerun,       \* FALSE during the first process_album call, TRUE during the second
    params,      \* the arguments of the current process_album call
    images,      \* process_album's local `images` (snapshots read from the host)
    idx,         \* process_album's loop index (1-based, next item to process)
    cur,         \* the ProcessingResult process_image returned, not yet appended
    stats,       \* BatchProcessingStats of the current call
    started,     \* image keys process_image was called for, in call order (this call)
    downloads,   \* image keys download_image went to the network for (this call)
    analysed,    \* image keys handed to the vision model (this call)
    updates,     \* update_image_metadata calls of this call, in order
    excs,        \* per process_image call of this call: the exception raised inside its try
    fetch_failed,\* get_album or get_album_images raised in this call
    committed,   \* keys whose commit succeeded in the first call with force_reprocess false
    \* ---- SpecMatch: one LocationResolver ----
    locfile,     \* the gazetteer file: whether it exists and the regions it lists
    locations,   \* LocationResolver._locations
    loaded,      \* LocationResolver._loaded
    fm,          \* the last find_match call: its latitude and what it returned
    \* ---- SpecGeo, SpecCache: the reverse geocoders ----
    geocode_cache, \* exif_optimized._geocode_cache: key -> (result, timestamp)
    now,           \* time.time(), in seconds
    geo,           \* the last geocoding call: its arguments and what came back
    \* ---- SpecFaces: reference faces and their on-disk cache ----
    ref,            \* reference file -> its stat and whether it shows a face
    person,         \* the name of the person directory the files are in
    manifest_file,  \* face_encodings_<hash>_manifest.json
    encodings_file, \* face_encodings_<hash>.pkl
    fr,             \* the FaceRecognizer: position, fields, what its last load did
    last,           \* the last completed save and what changed on disk since
    \* ---- SpecIdentify: FaceRecognizer.identify_faces ----
    ident,          \* the last identify_faces call: its inputs and what it did
    \* ---- SpecTags: the tag formatters ----
    fmt,            \* the last format call: its inputs and the tag list it built
    \* ---- SpecWeb: the singletons of the web application ----
    preview_service,      \* api._preview_service: 0 for None, else the instance
    preview_service_lock, \* api._preview_service_lock: the thread holding it, or ""
    services,             \* the PreviewService instances constructed, in order
    recognizers,          \* the FaceRecognizer constructor calls made so far
    tpc,                  \* request thread -> its position
    got,                  \* request thread -> its locals and what its calls returned
    \* ---- SpecLocate: the GPS step of process_image ----
    loc,                  \* the last process_image call: its inputs and what it did
    \* ---- SpecParts: the location string of the geocoders ----
    built,                \* the last assembly: the venue, the address, the parts joined
    \* ---- SpecShared: the module-level resolver and geocode cache ----
    default_resolver,     \* locations._default_resolver: 0 for None, else the instance
    resolvers,            \* the LocationResolver instances constructed so far
    bpc,                  \* batch thread -> its position
    held,                 \* batch thread -> its local and the resolver it was given
    accesses,             \* the reads and writes of the two globals: who, which, the lock held
    \* ---- SpecPreview: one PreviewJob, its status streams and its commits ----
    job,                  \* the PreviewJob in PreviewService._jobs
    spc,                  \* status stream -> position of its process_preview
    sloc,                 \* status stream -> its force_reprocess and loop index
    commit,               \* the last commit_changes call: what it saw and sent
    \* ---- SpecFetch: the image cache directory across items and batches ----
    cache_files,          \* cached path -> key of the item whose bytes it holds (0: absent)
    source_of,            \* item key -> key of the item whose bytes it was analysed from (0: none)
    fetch_errors          \* the item keys whose fetch raised

pipeVars == <<host, dry_run, cached, pc, rerun, params, images, idx, cur, stats,
              started, downloads, analysed, updates, excs, fetch_failed, committed>>

matchVars == <<locfile, locations, loaded, fm>>

geoVars == <<geocode_cache, now, geo>>

faceVars == <<ref, person, manifest_file, encodings_file, fr, last>>

identVars == <<ident>>

tagVars == <<fmt>>

webVars == <<preview_service, preview_service_lock, services, recognizers, tpc, got>>

locVars == <<loc>>

partsVars == <<built>>

sharedVars == <<default_resolver, resolvers, bpc, held, accesses>>

jobVars == <<job, spc, sloc, commit>>

diskVars == <<cache_files, source_of, fetch_errors>>

otherThanPipe == <<matchVars, geoVars, faceVars, identVars, tagVars, webVars, locVars, partsVars, sharedVars, jobVars, diskVars>>

otherThanMatch == <<pipeVars, geoVars, faceVars, identVars, tagVars, webVars, locVars, partsVars, sharedVars, jobVars, diskVars>>

otherThanGeo == <<pipeVars, matchVars, faceVars, identVars, tagVars, webVars, locVars, partsVars, sharedVars, jobVars, diskVars>>

otherThanFace == <<pipeVars, matchVars, geoVars, identVars, tagVars, webVars, locVars, partsVars, sharedVars, jobVars, diskVars>>

otherThanIdent == <<pipeVars, matchVars, geoVars, faceVars, tagVars, webVars, locVars, partsVars, sharedVars, jobVars, diskVars>>

otherThanTags == <<pipeVars, matchVars, geoVars, faceVars, identVars, webVars, locVars, partsVars, sharedVars, jobVars, diskVars>>

otherThanWeb == <<pipeVars, matchVars, geoVars, faceVars, identVars, tagVars, locVars, partsVars, sharedVars, jobVars, diskVars>>

otherThanLoc == <<pipeVars, matchVars, geoVars, faceVars, identVars, tagVars, webVars, partsVars, sharedVars, jobVars, diskVars>>

otherThanParts == <<pipeVars, matchVars, geoVars, faceVars, identVars, tagVars, webVars, locVars, sharedVars, jobVars, diskVars>>

otherThanShared == <<pipeVars, matchVars, geoVars, faceVars, identVars, tagVars, webVars, locVars, partsVars, jobVars, diskVars>>

otherThanJob == <<pipeVars, matchVars, geoVars, faceVars, identVars, tagVars, webVars, locVars, partsVars, sharedVars, diskVars>>

otherThanDisk == <<pipeVars, matchVars, geoVars, faceVars, identVars, tagVars, webVars, locVars, partsVars, sharedVars, jobVars>>

vars == <<pipeVars, matchVars, geoVars, faceVars, identVars, tagVars, webVars, locVars, partsVars, sharedVars, jobVars, diskVars>>

\* ------------------------------------------------------------------------
\* Bounds
\* ------------------------------------------------------------------------
MaxImages == 2

ImageKeys == 1..MaxImages

\* ------------------------------------------------------------------------
\* Tags, captions
\* ------------------------------------------------------------------------
\* config.get("processing.marker_tag", "smugvision")
MarkerTag == "smugvision"

\* str.lower() on the tags of the model
Lower(t) ==
    CASE t = "SmugVision" -> "smugvision"
      [] t = "Dog"        -> "dog"
      [] OTHER            -> t

\* A caption value as it travels to and from the host. kind "none" is None,
\* "text" a string (a sequence of sentences), "payload" the object
\* create_update_payload built.
NoCaption == [kind |-> "none", text |-> <<>>, keywords |-> <<>>]
Text(s) == [kind |-> "text", text |-> s, keywords |-> <<>>]

\* AlbumImage.has_marker_tag
HasMarkerTag_CaseSensitive(keywords, marker_tag) ==
    \E n \in 1..Len(keywords) : keywords[n] = marker_tag

HasMarkerTag(keywords, marker_tag) ==
    Lower(marker_tag) \in { Lower(keywords[n]) : n \in 1..Len(keywords) }

\* ------------------------------------------------------------------------
\* The host: records and update_image_metadata
\* ------------------------------------------------------------------------
\* The records an album image can start with: tagged by hand (GPS only in the
\* file's EXIF, at a place the geocoder knows nothing about), already marked (in
\* another letter case, with a caption and host GPS), and a video without GPS.
HostRecords ==
    { [keywords |-> <<"Dog">>, caption |-> NoCaption, is_video |-> FALSE,
       has_gps |-> FALSE, exif_gps |-> TRUE, geo_found |-> FALSE, people |-> <<>>],
      [keywords |-> <<"SmugVision">>, caption |-> Text(<<"old">>), is_video |-> FALSE,
       has_gps |-> TRUE, exif_gps |-> FALSE, geo_found |-> TRUE, people |-> <<"Ann_Lee">>],
      [keywords |-> <<>>, caption |-> NoCaption, is_video |-> TRUE,
       has_gps |-> FALSE, exif_gps |-> FALSE, geo_found |-> FALSE, people |-> <<>>] }

\* An optional keywords argument: None, or a list.
NoKeywords == [given |-> FALSE, list |-> <<>>]
Keywords(l) == [given |-> TRUE, list |-> l]

\* ", ".join(keywords) on the way out and the split on "," / strip / drop-empty of
\* AlbumImage.from_api_response on the way back: empty tags do not survive.
KeywordsRoundTrip(l) == SelectSeq(l, LAMBDA t : t # "")

\* SmugMugClient.update_image_metadata(image_key, caption=None, keywords=None):
\* the host record after a PATCH that the host accepted. A field that was not
\* given is not part of update_data and keeps its value.
UpdateImageMetadata(h, image_key, caption, keywords) ==
    [h EXCEPT ![image_key] =
        [@ EXCEPT !.caption  = IF caption.kind # "none" THEN caption ELSE @,
                  !.keywords = IF keywords.given
                               THEN KeywordsRoundTrip(keywords.list) ELSE @]]

\* AlbumImage.from_api_response for the record of image_key
FromApiResponse(h, image_key) ==
    [image_key |-> image_key,
     keywords  |-> h[image_key].keywords,
     caption   |-> h[image_key].caption,
     is_video  |-> h[image_key].is_video,
     has_gps   |-> h[image_key].has_gps,
     exif_gps  |-> h[image_key].exif_gps,
     geo_found |-> h[image_key].geo_found,
     people    |-> h[image_key].people]

\* ------------------------------------------------------------------------
\* MetadataFormatter (processing/metadata.py)
\* ------------------------------------------------------------------------
RECURSIVE AddTags(_, _)
\* each new tag is added only if no tag equal ignoring case is present
AddTags(tags, new) ==
    IF new = <<>> THEN tags
    ELSE AddTags(IF Lower(Head(new)) \in { Lower(tags[n]) : n \in 1..Len(tags) }
                 THEN tags ELSE Append(tags, Head(new)),
                 Tail(new))

\* format_tags with preserve_existing: existing, then generated tags, person
\* names and location tags, then the marker
FormatTags(ai_tags, existing_tags, person_names, location_tags, marker_tag) ==
    AddTags(AddTags(AddTags(AddTags(existing_tags, ai_tags), person_names),
                    location_tags), <<marker_tag>>)

\* format_caption with preserve_existing: the existing caption is kept and the
\* generated one appended
FormatCaption(ai_caption, existing_caption) ==
    IF existing_caption.kind # "none"
    THEN Text(existing_caption.text \o ai_caption)
    ELSE Text(ai_caption)

\* create_update_payload(caption, tags)
CreateUpdatePayload(caption, tags) ==
    [kind |-> "payload", text |-> caption.text, keywords |-> tags]

\* ------------------------------------------------------------------------
\* ImageProcessor.process_image
\* ------------------------------------------------------------------------
\* What the collaborators answer during one process_image call.
Responses ==
    [download : {"ok", "fail"}, vision : {"ok", "fail"}, update : {"ok", "fail"}]

AiCaption == <<"ai">>
AiTags == <<"dog", "beach">>
GeoLocation == <<"Louisville", "KY">>

\* name.replace('_', ' ')
ReplaceUnderscore(name) == IF name = "Ann_Lee" THEN "Ann Lee" ELSE name

PersonNames(raw) == [n \in 1..Len(raw) |-> ReplaceUnderscore(raw[n])]

\* len(part) > 2 for the location parts of the model
LongerThanTwo(part) == part # "KY"

\* _extract_location_tags: the comma-separated parts longer than two characters
ExtractLocationTags(location_name) == SelectSeq(location_name, LongerThanTwo)

\* ProcessingResult(image_key=..., success=False, current_keywords=...)
NewResult(image) ==
    [image_key |-> image.image_key, success |-> FALSE, skipped |-> FALSE,
     error |-> "", current_keywords |-> image.keywords, proposed |-> FALSE,
     proposed_caption |-> NoCaption, proposed_keywords |-> <<>>,
     detected_faces |-> <<>>, location |-> <<>>]

NoEffects == [download |-> FALSE, file |-> FALSE, analysed |-> FALSE, update |-> <<>>]

\* `if not self.dry_run:` before the host update
ShouldCommit_Always(dry) == TRUE

ShouldCommit(dry) == ~dry

\* `if not force_reprocess and image.has_marker_tag(marker_tag):`
ShouldSkip(image, force_reprocess) ==
    ~force_reprocess /\ HasMarkerTag(image.keywords, MarkerTag)

\* The arguments process_image passes to update_image_metadata:
\* self.smugmug.update_image_metadata(image.image_key, payload) binds the payload
\* to the second positional parameter, caption; keywords keeps its default None.
UpdateCall(image_key, payload) ==
    [image_key |-> image_key, caption |-> payload, keywords |-> NoKeywords]

\* `except Exception as e: result.error = str(e)`: the result built so far keeps
\* its other fields
RecordError_FreshResult(result, message) ==
    [NewResult([image_key |-> result.image_key, keywords |-> result.current_keywords])
        EXCEPT !.error = message]

RecordError(result, message) == [result EXCEPT !.error = message]

\* process_image(image, album, force_reprocess): the result it returns and what it
\* did on the way. in_cache: the image file is already in the album cache directory.
ProcessImage(image, force_reprocess, dry, in_cache, resp) ==
    LET result == NewResult(image)
        \* _download_image: download_image(skip_if_exists=True) returns None for a
        \* cached file without a request; a failed request is logged and None returned
        requested == ~in_cache
        exists    == in_cache \/ resp.download = "ok"
        has_coordinates == image.has_gps \/ image.exif_gps
        location_string == IF has_coordinates /\ image.geo_found
                           THEN GeoLocation ELSE <<>>
        person_names == PersonNames(image.people)
        final_caption == FormatCaption(AiCaption, image.caption)
        location_tags == IF has_coordinates
                         THEN ExtractLocationTags(location_string) ELSE <<>>
        final_tags == FormatTags(AiTags, image.keywords, person_names,
                                 location_tags, MarkerTag)
        proposed == [result EXCEPT !.proposed = TRUE,
                                   !.proposed_caption = final_caption,
                                   !.proposed_keywords = final_tags,
                                   !.detected_faces = person_names,
                                   !.location = location_string]
        payload == CreateUpdatePayload(final_caption, final_tags)
        call == UpdateCall(image.image_key, payload)
    IN  IF ShouldSkip(image, force_reprocess)
        THEN [result |-> [result EXCEPT !.skipped = TRUE], exc |-> "", effects |-> NoEffects]
        ELSE IF ~exists
        THEN [result |-> RecordError(result, "Failed to download image"),
              exc |-> "ValueError",
              effects |-> [NoEffects EXCEPT !.download = requested]]
        ELSE IF resp.vision = "fail"
        THEN [result |-> RecordError(result, "vision model error"),
              exc |-> "VisionModelError",
              effects |-> [download |-> requested, file |-> TRUE,
                           analysed |-> TRUE, update |-> <<>>]]
        ELSE IF ~ShouldCommit(dry)
        THEN [result |-> [proposed EXCEPT !.success = TRUE], exc |-> "",
              effects |-> [download |-> requested, file |-> TRUE,
                           analysed |-> TRUE, update |-> <<>>]]
        ELSE IF resp.update = "fail"
        THEN [result |-> RecordError(proposed, "update failed"),
              exc |-> "SmugMugAPIError",
              effects |-> [download |-> requested, file |-> TRUE, analysed |-> TRUE,
                           update |-> <<call @@ [ok |-> FALSE]>>]]
        ELSE [result |-> [proposed EXCEPT !.success = TRUE], exc |-> "",
              effects |-> [download |-> requested, file |-> TRUE, analysed |-> TRUE,
                           update |-> <<call @@ [ok |-> TRUE]>>]]

\* ------------------------------------------------------------------------
\* ImageProcessor.process_album
\* ------------------------------------------------------------------------
NoResult == NewResult([image_key |-> 0, keywords |-> <<>>])

\* BatchProcessingStats(total_images=n)
NewStats(n) ==
    [total_images |-> n, processed |-> 0, skipped |-> 0, errors |-> 0, results |-> <<>>]

\* `images = [img for img in all_items if not img.is_video]` when skip_videos
FilterVideos(all_items, skip_videos) ==
    IF skip_videos THEN SelectSeq(all_items, LAMBDA img : ~img.is_video)
    ELSE all_items

\* process_album after get_album / get_album_images raised: the exception is not
\* caught, so the call ends there
AfterFetchFailure_Continue == "get_images"

AfterFetchFailure == "raised"

\* stats.results.append(result)
AppendToResults_Prepend(results, result) == <<result>> \o results

AppendToResults(results, result) == Append(results, result)

\* the counter updates of one loop iteration
CountResult_ErrorsUncounted(st, result) ==
    IF result.success THEN [st EXCEPT !.processed = @ + 1]
    ELSE IF result.skipped THEN [st EXCEPT !.skipped = @ + 1]
    ELSE st

CountResult_SkippedUncounted(st, result) ==
    IF result.success THEN [st EXCEPT !.processed = @ + 1]
    ELSE IF result.skipped THEN st
    ELSE [st EXCEPT !.errors = @ + 1]

CountResult(st, result) ==
    IF result.success THEN [st EXCEPT !.processed = @ + 1]
    ELSE IF result.skipped THEN [st EXCEPT !.skipped = @ + 1]
    ELSE [st EXCEPT !.errors = @ + 1]

\* the locals of process_album and the observations, before the first call
PipeLocals ==
    /\ cached = {}
    /\ pc = "idle"
    /\ rerun = FALSE
    /\ params = [force_reprocess |-> FALSE, skip_videos |-> TRUE]
    /\ images = <<>>
    /\ idx = 1
    /\ cur = NoResult
    /\ stats = NewStats(0)
    /\ started = <<>>
    /\ downloads = {}
    /\ analysed = {}
    /\ updates = <<>>
    /\ excs = <<>>
    /\ fetch_failed = FALSE
    /\ committed = {}

\* ImageProcessor(config, ..., dry_run) over an album of the host
PipeInit ==
    /\ host \in [ImageKeys -> HostRecords]
    /\ dry_run \in BOOLEAN
    /\ PipeLocals

\* no processor at work
PipeIdle ==
    /\ host = [k \in ImageKeys |-> CHOOSE r \in HostRecords : r.is_video]
    /\ dry_run = FALSE
    /\ PipeLocals

\* process_album is called; get_album answers or raises
GetAlbum ==
    /\ pc = "idle"
    /\ \E force \in BOOLEAN, skip \in BOOLEAN, ok \in BOOLEAN :
         /\ params' = [force_reprocess |-> force, skip_videos |-> skip]
         /\ fetch_failed' = ~ok
         /\ pc' = IF ok THEN "get_images" ELSE AfterFetchFailure
    /\ UNCHANGED <<host, dry_run, cached, rerun, images, idx, cur, stats, started,
                   downloads, analysed, updates, excs, committed>>
    /\ UNCHANGED otherThanPipe

\* get_album_images answers or raises; the videos are filtered out, the stats are
\* created and an empty list returns at once
GetAlbumImages ==
    /\ pc = "get_images"
    /\ \E ok \in BOOLEAN :
         LET all_items == [k \in ImageKeys |-> FromApiResponse(host, k)]
             imgs == FilterVideos(all_items, params.skip_videos)
         IN  IF ok
             THEN /\ images' = imgs
                  /\ stats' = NewStats(Len(imgs))
                  /\ pc' = IF imgs = <<>> THEN "done" ELSE "loop"
                  /\ UNCHANGED fetch_failed
             ELSE /\ images' = <<>>
                  /\ fetch_failed' = TRUE
                  /\ pc' = AfterFetchFailure
                  /\ UNCHANGED stats
    /\ UNCHANGED <<host, dry_run, cached, rerun, params, idx, cur, started,
                   downloads, analysed, updates, excs, committed>>
    /\ UNCHANGED otherThanPipe

\* one loop iteration, first half: result = self.process_image(image, album, force)
CallProcessImage ==
    /\ pc = "loop"
    /\ idx <= Len(images)
    /\ \E resp \in Responses :
         LET image == images[idx]
             out == ProcessImage(image, params.force_reprocess, dry_run,
                                 image.image_key \in cached, resp)
             eff == out.effects
         IN  /\ cur' = out.result
             /\ started' = Append(started, image.image_key)
             /\ downloads' = IF eff.download THEN downloads \cup {image.image_key}
                             ELSE downloads
             /\ cached' = IF eff.file THEN cached \cup {image.image_key} ELSE cached
             /\ analysed' = IF eff.analysed THEN analysed \cup {image.image_key}
                            ELSE analysed
             /\ updates' = updates \o eff.update
             /\ excs' = Append(excs, out.exc)
             /\ host' = IF eff.update # <<>> /\ eff.update[1].ok
                        THEN UpdateImageMetadata(host, eff.update[1].image_key,
                                 eff.update[1].caption, eff.update[1].keywords)
                        ELSE host
    /\ pc' = "append"
    /\ UNCHANGED <<dry_run, rerun, params, images, idx, stats, fetch_failed, committed>>
    /\ UNCHANGED otherThanPipe

\* one loop iteration, second half: the result is appended and counted; after the
\* last item process_album returns the stats
AppendResult ==
    /\ pc = "append"
    /\ stats' = CountResult([stats EXCEPT !.results = AppendToResults(@, cur)], cur)
    /\ cur' = NoResult
    /\ idx' = idx + 1
    /\ pc' = IF idx = Len(images) THEN "done" ELSE "loop"
    /\ UNCHANGED <<host, dry_run, cached, rerun, params, images, started,
                   downloads, analysed, updates, excs, fetch_failed, committed>>
    /\ UNCHANGED otherThanPipe

\* the first call is over (returned or raised); the same processor is used again
\* and the locals of the first call are gone
RunAgain ==
    /\ pc \in {"done", "raised"}
    /\ ~rerun
    /\ rerun' = TRUE
    /\ committed' = IF params.force_reprocess THEN {}
                    ELSE { updates[n].image_key : n \in { m \in 1..Len(updates) : updates[m].ok } }
    /\ fetch_failed' = FALSE
    /\ pc' = "idle"
    /\ images' = <<>>
    /\ idx' = 1
    /\ cur' = NoResult
    /\ stats' = NewStats(0)
    /\ started' = <<>>
    /\ downloads' = {}
    /\ analysed' = {}
    /\ updates' = <<>>
    /\ excs' = <<>>
    /\ UNCHANGED <<host, dry_run, cached, params>>
    /\ UNCHANGED otherThanPipe

Next ==
    \/ GetAlbum
    \/ GetAlbumImages
    \/ CallProcessImage
    \/ AppendResult
    \/ RunAgain

\* ------------------------------------------------------------------------
\* LocationResolver (utils/locations.py)
\* ------------------------------------------------------------------------
MaxRegions == 2
MaxLat == 2
GridStep == 50

Abs(x) == IF x < 0 THEN -x ELSE x

\* _haversine_distance for two points of one meridian: dlon = 0, so
\* a = sin(dlat/2)^2, c = |dlat| and the distance is r * |dlat|. The latitudes of
\* the model are counted in steps of GridStep metres of arc.
HaversineDistance(lat1, lat2) == Abs(lat2 - lat1) * GridStep

\* CustomLocation: name, latitude, radius (metres, positive)
CustomLocations ==
    [name : 1..MaxRegions, latitude : 0..MaxLat, radius : {GridStep, 2 * GridStep}]

\* the region lists of a gazetteer: the k-th region is named k
RegionLists ==
    UNION { { l \in [1..n -> CustomLocations] : \A k \in 1..n : l[k].name = k }
            : n \in 0..MaxRegions }

\* find_match's return value: None, or LocationMatch(location, distance)
NoMatch ==
    [found |-> FALSE, location |-> [name |-> 0, latitude |-> 0, radius |-> 0],
     distance |-> 0]
LocationMatch(location, distance) ==
    [found |-> TRUE, location |-> location, distance |-> distance]

\* `best_match is None or distance < best_match.distance`
IsBetter_OrEqual(distance, best_match) ==
    ~best_match.found \/ distance <= best_match.distance

IsBetter(distance, best_match) ==
    ~best_match.found \/ distance < best_match.distance

RECURSIVE ScanLocations(_, _, _)
\* the for loop of find_match over self._locations
ScanLocations(locs, latitude, best_match) ==
    IF locs = <<>> THEN best_match
    ELSE LET location == Head(locs)
             distance == HaversineDistance(latitude, location.latitude)
         IN  ScanLocations(Tail(locs), latitude,
                 IF distance <= location.radius /\ IsBetter(distance, best_match)
                 THEN LocationMatch(location, distance)
                 ELSE best_match)

\* find_match once the regions are loaded
FindMatch(locs, latitude) ==
    IF locs = <<>> THEN NoMatch ELSE ScanLocations(locs, latitude, NoMatch)

\* load(): the regions of the file, none when the file does not exist
Load(file) == IF file.exists THEN file.regions ELSE <<>>

NoCall ==
    [called |-> FALSE, latitude |-> 0, locs |-> <<>>, result |-> NoMatch,
     before |-> [locations |-> <<>>, loaded |-> FALSE], io |-> FALSE]

\* LocationResolver(locations_file, auto_load): the file is loaded during
\* construction when auto_load is set and the file exists
MatchInit ==
    /\ locfile \in { f \in [exists : BOOLEAN, regions : RegionLists] :
                       ~f.exists => f.regions = <<>> }
    /\ \E auto_load \in BOOLEAN :
         /\ loaded = (auto_load /\ locfile.exists)
         /\ locations = IF auto_load /\ locfile.exists THEN Load(locfile) ELSE <<>>
    /\ fm = NoCall

\* no resolver at work
MatchIdle ==
    /\ locfile = [exists |-> FALSE, regions |-> <<>>]
    /\ locations = <<>>
    /\ loaded = FALSE
    /\ fm = NoCall

\* find_match(latitude, longitude): loads first when nothing was loaded yet;
\* io: load() looked for the file and read it when it was there
CallFindMatch ==
    /\ \E latitude \in 0..MaxLat :
         LET locs == IF loaded THEN locations ELSE Load(locfile)
         IN  /\ locations' = locs
             /\ loaded' = TRUE
             /\ fm' = [called |-> TRUE, latitude |-> latitude, locs |-> locs,
                       result |-> FindMatch(locs, latitude),
                       before |-> [locations |-> locations, loaded |-> loaded],
                       io |-> ~loaded]
    /\ UNCHANGED locfile
    /\ UNCHANGED otherThanMatch

\* add_location(location): loads first when nothing was loaded yet, then appends
\* to the list in memory
AddLocation ==
    /\ \E location \in CustomLocations :
         LET locs == IF loaded THEN locations ELSE Load(locfile)
         IN  /\ Len(locs) < MaxRegions
             /\ location.name = Len(locs) + 1
             /\ locations' = Append(locs, location)
             /\ loaded' = TRUE
    /\ UNCHANGED <<locfile, fm>>
    /\ UNCHANGED otherThanMatch

\* reload()
Reload ==
    /\ locations' = Load(locfile)
    /\ loaded' = TRUE
    /\ UNCHANGED <<locfile, fm>>
    /\ UNCHANGED otherThanMatch

MatchNext ==
    \/ CallFindMatch
    \/ AddLocation
    \/ Reload

\* ------------------------------------------------------------------------
\* search_nearby_pois_overpass, reverse_geocode_optimized (utils/exif_optimized.py)
\* and reverse_geocode (utils/exif.py)
\* ------------------------------------------------------------------------
CacheTtl == 3600
PoiRadius == 200

\* Exception classes of the model. Everything but KeyboardInterrupt derives from
\* Exception.
SubclassOfException(exc) == exc # "KeyboardInterrupt"

\* What the Overpass request can do: the import of requests fails, the request
\* raises, the status is not 200, the body is not JSON, an element lacks its
\* coordinates, or a list of elements (name, distance in metres) comes back.
PoiElements ==
    { <<>>,
      <<[name |-> "Cafe", distance |-> 30]>>,
      <<[name |-> "Cafe", distance |-> 30], [name |-> "Bar", distance |-> 10]>>,
      <<[name |-> "Depot", distance |-> 200], [name |-> "Cafe", distance |-> 30]>>,
      <<[name |-> "Mill", distance |-> 250]>>,
      <<[name |-> "", distance |-> 5], [name |-> "Bar", distance |-> 10]>>,
      <<[name |-> "Cafe", distance |-> 120], [name |-> "Cafe", distance |-> 60]>> }

PoiResponses ==
    [kind : {"raise"}, exc : {"ImportError", "Timeout", "ValueError", "KeyError"},
     status : {200}, elements : {<<>>}]
    \cup [kind : {"answer"}, exc : {""}, status : {200}, elements : PoiElements]
    \cup [kind : {"answer"}, exc : {""}, status : {500}, elements : {<<>>}]

RECURSIVE InsertByDistance(_, _)
\* v put behind every venue that is not farther away (list.sort is stable)
InsertByDistance(sorted, v) ==
    IF sorted = <<>> THEN <<v>>
    ELSE IF Head(sorted).distance <= v.distance
         THEN <<Head(sorted)>> \o InsertByDistance(Tail(sorted), v)
         ELSE <<v>> \o sorted

RECURSIVE SortByDistance(_)
\* venues.sort(key=lambda x: x['distance'])
SortByDistance(venues) ==
    IF venues = <<>> THEN <<>>
    ELSE InsertByDistance(SortByDistance(SubSeq(venues, 1, Len(venues) - 1)),
                          venues[Len(venues)])

\* `except Exception as e:` of search_nearby_pois_overpass
PoiCatches(exc) == SubclassOfException(exc)

\* search_nearby_pois_overpass(latitude, longitude, radius): the exception that
\* leaves it ("" for none) and the list it returns
SearchNearbyPoisOverpass(poi, radius) ==
    LET named == SelectSeq(poi.elements,
                           LAMBDA el : el.name # "" /\ el.distance <= radius)
        exc == IF poi.kind = "raise" THEN poi.exc ELSE ""
    IN  IF exc # ""
        THEN IF PoiCatches(exc) THEN [exc |-> "", venues |-> <<>>]
             ELSE [exc |-> exc, venues |-> <<>>]
        ELSE IF poi.status = 200 THEN [exc |-> "", venues |-> SortByDistance(named)]
        ELSE [exc |-> "", venues |-> <<>>]

\* What geolocator.reverse can do: geopy is missing, the call raises, nothing is
\* found, or a location with a name and address fields ("" for an absent one).
NoAddress == [building |-> "", city |-> "", county |-> "", state |-> "", country |-> ""]

GeoLocations ==
    { [name |-> "Palace", full |-> "Palace, 625 S 4th St",
       address |-> [NoAddress EXCEPT !.city = "Louisville", !.state = "Kentucky"]],
      [name |-> "", full |-> "625 S 4th St",
       address |-> [NoAddress EXCEPT !.city = "Louisville",
                                     !.county = "Jefferson County"]],
      [name |-> "", full |-> "625 S 4th St",
       address |-> [NoAddress EXCEPT !.building = "Library", !.city = "Louisville"]],
      [name |-> "", full |-> "Atlantic Ocean", address |-> NoAddress] }

NoLocation == [name |-> "", full |-> "", address |-> NoAddress]

GeoResponses ==
    [kind : {"raise"}, exc : {"ImportError", "GeocoderTimedOut", "GeocoderServiceError",
                               "AttributeError"}, location : {NoLocation}]
    \cup [kind : {"none"}, exc : {""}, location : {NoLocation}]
    \cup [kind : {"location"}, exc : {""}, location : GeoLocations]

\* What input() gives when the user is asked to choose a venue.
InputResponses == {"2", "9", "", "EOFError", "KeyboardInterrupt", "OSError"}

InputRaises(choice) == choice \in {"EOFError", "KeyboardInterrupt", "OSError"}

\* int(choice) when choice.isdigit(), 0 otherwise
ChoiceNumber(choice) ==
    CASE choice = "1" -> 1 [] choice = "2" -> 2 [] choice = "9" -> 9 [] OTHER -> 0

\* the venue picked among several: the closest unless the user picks another
\* `exc`: the exception input() raised that `except (EOFError, KeyboardInterrupt)`
\* does not catch
ChooseVenue(nearby_venues, interactive, choice) ==
    IF ~interactive THEN [exc |-> "", name |-> nearby_venues[1].name]
    ELSE IF InputRaises(choice)
    THEN IF choice \in {"EOFError", "KeyboardInterrupt"}
         THEN [exc |-> "", name |-> nearby_venues[1].name]
         ELSE [exc |-> choice, name |-> ""]
    ELSE IF ChoiceNumber(choice) >= 1 /\ ChoiceNumber(choice) <= Len(nearby_venues)
    THEN [exc |-> "", name |-> nearby_venues[ChoiceNumber(choice)].name]
    ELSE [exc |-> "", name |-> nearby_venues[1].name]

\* county.replace(' County', '').strip()
CountyClean(county) == IF county = "Jefferson County" THEN "Jefferson" ELSE county

InSeq(x, seq) == \E n \in 1..Len(seq) : seq[n] = x

\* the parts of the location string, most specific first
LocationParts(building_name, address) ==
    LET p1 == IF building_name # "" THEN <<building_name>> ELSE <<>>
        p2 == IF address.city # "" /\ ~InSeq(address.city, p1)
              THEN Append(p1, address.city) ELSE p1
        p3 == IF address.county # "" /\ ~InSeq(CountyClean(address.county), p2)
              THEN Append(p2, CountyClean(address.county)) ELSE p2
        p4 == IF address.state # "" THEN Append(p3, address.state) ELSE p3
    IN  IF address.country # "" THEN Append(p4, address.country) ELSE p4

\* round(x, 6) for a coordinate counted in tenths of a millionth of a degree:
\* the nearest millionth, a tie going to the even one
Round6(x) ==
    LET q == x \div 10
        r == x % 10
    IN  IF r < 5 THEN q
        ELSE IF r > 5 THEN q + 1
        ELSE IF q % 2 = 0 THEN q ELSE q + 1

\* cache_key = (round(latitude, 6), round(longitude, 6), interactive)
CacheKey(latitude, longitude, interactive) ==
    <<Round6(latitude), Round6(longitude), interactive>>

\* `time.time() - timestamp < 3600`
IsFresh_Inclusive(t, timestamp) == t - timestamp <= CacheTtl

IsFresh(t, timestamp) == t - timestamp < CacheTtl

\* the handlers of reverse_geocode_optimized and of reverse_geocode:
\* (GeocoderTimedOut, GeocoderServiceError), ImportError, Exception
GeocodeCatches_NoCatchAll(exc) ==
    exc \in {"GeocoderTimedOut", "GeocoderServiceError", "ImportError"}

GeocodeCatches(exc) ==
    \/ exc \in {"GeocoderTimedOut", "GeocoderServiceError"}
    \/ exc = "ImportError"
    \/ SubclassOfException(exc)

\* a return value: none /  a string (its parts, or one full address), the exception
\* that left the function ("" for none) and what was called on the way
Returned0 ==
    [exc |-> "", none |-> TRUE, value |-> <<>>, from_cache |-> FALSE,
     geocoder_calls |-> 0, poi_calls |-> 0, stored |-> FALSE]

\* the body of the try of reverse_geocode_optimized, before its handlers
GeocodeBody(latitude, longitude, interactive, geo_resp, poi_resp, choice) ==
    LET location == geo_resp.location
        address == location.address
        named == IF location.name # "" THEN location.name ELSE address.building
        poi == SearchNearbyPoisOverpass(poi_resp, PoiRadius)
        pick == IF Len(poi.venues) > 1
                THEN ChooseVenue(poi.venues, interactive, choice)
                ELSE IF Len(poi.venues) = 1
                THEN [exc |-> "", name |-> poi.venues[1].name]
                ELSE [exc |-> "", name |-> ""]
        building_name == IF named # "" THEN named ELSE pick.name
        parts == LocationParts(building_name, address)
        called == [Returned0 EXCEPT !.geocoder_calls = 1]
        searched == [called EXCEPT !.poi_calls = 1]
    IN  IF geo_resp.kind = "raise"
        THEN [Returned0 EXCEPT !.exc = geo_resp.exc,
                               !.geocoder_calls = IF geo_resp.exc = "ImportError"
                                                  THEN 0 ELSE 1]
        ELSE IF geo_resp.kind = "none" THEN called
        ELSE IF named = "" /\ poi.exc # "" THEN [searched EXCEPT !.exc = poi.exc]
        ELSE IF named = "" /\ pick.exc # "" THEN [searched EXCEPT !.exc = pick.exc]
        ELSE [(IF named = "" THEN searched ELSE called) EXCEPT
                 !.none = FALSE,
                 !.value = IF parts # <<>> THEN parts ELSE <<location.full>>,
                 !.stored = TRUE]

\* reverse_geocode_optimized(latitude, longitude, interactive, use_cache) called at
\* time t with the cache `cache`: what it returns and the cache afterwards
ReverseGeocodeOptimized(cache, t, latitude, longitude, interactive, use_cache, geo_resp, poi_resp, choice) ==
    LET cache_key == CacheKey(latitude, longitude, interactive)
        body == GeocodeBody(latitude, longitude, interactive, geo_resp, poi_resp, choice)
    IN  IF use_cache /\ cache_key \in DOMAIN cache /\ IsFresh(t, cache[cache_key].timestamp)
        THEN [ret |-> [Returned0 EXCEPT !.none = FALSE,
                                        !.value = cache[cache_key].result,
                                        !.from_cache = TRUE],
              cache |-> cache]
        ELSE IF body.exc # ""
        THEN [ret |-> IF GeocodeCatches(body.exc)
                      THEN [body EXCEPT !.exc = "", !.none = TRUE, !.value = <<>>]
                      ELSE body,
              cache |-> cache]
        ELSE [ret |-> body,
              cache |-> IF use_cache /\ body.stored
                        THEN (cache_key :> [result |-> body.value, timestamp |-> t,
                                            latitude |-> latitude, longitude |-> longitude,
                                            interactive |-> interactive]) @@ cache
                        ELSE cache]

\* the venue types reverse_geocode searches one after the other (two of the list)
SearchTerms == <<"restaurant", "cafe">>

\* What geolocator.geocode can do for one search term: raise, or answer with
\* results (name, distance in metres; a result with unparsable coordinates makes
\* float() raise ValueError).
SearchResponses ==
    [kind : {"raise"}, exc : {"GeocoderTimedOut", "ValueError"}, results : {<<>>}]
    \cup [kind : {"answer"}, exc : {""}, results : PoiElements]

\* the services that fail in every way, and a few that answer
FailureGeoResponses ==
    { r \in GeoResponses : r.kind = "location" =>
                               r.location.full \in {"Palace, 625 S 4th St", "Atlantic Ocean"} }

FailurePoiResponses ==
    { r \in PoiResponses : Len(r.elements) \in {0, 2} /\ \A n \in 1..Len(r.elements) :
                                                          r.elements[n].distance < 50 }

FailureSearchResponses ==
    { r \in SearchResponses : Len(r.results) \in {0, 2} /\ \A n \in 1..Len(r.results) :
                                                             r.results[n].distance < 50 }

RECURSIVE AddCandidates(_, _)
\* the results of one search put behind nearby_venues: within 200 metres, named,
\* and no name twice
AddCandidates(nearby_venues, results) ==
    IF results = <<>> THEN nearby_venues
    ELSE LET r == Head(results)
             keep == /\ r.distance < PoiRadius
                     /\ r.name # ""
                     /\ ~\E n \in 1..Len(nearby_venues) : nearby_venues[n].name = r.name
         IN  AddCandidates(IF keep THEN Append(nearby_venues, r) ELSE nearby_venues,
                           Tail(results))

RECURSIVE SearchVenues(_, _)
\* `for search_term in all_venue_types:`; a search that raises is skipped
SearchVenues(nearby_venues, searches) ==
    IF searches = <<>> THEN nearby_venues
    ELSE SearchVenues(IF Head(searches).kind = "raise" THEN nearby_venues
                      ELSE AddCandidates(nearby_venues, Head(searches).results),
                      Tail(searches))

\* the body of the try of reverse_geocode, before its handlers
ReverseGeocodeBody(latitude, longitude, interactive, geo_resp, searches, choice) ==
    LET location == geo_resp.location
        address == location.address
        venues == SortByDistance(SearchVenues(<<>>, searches))
        pick == IF Len(venues) > 1 THEN ChooseVenue(venues, interactive, choice)
                ELSE IF Len(venues) = 1 THEN [exc |-> "", name |-> venues[1].name]
                ELSE [exc |-> "", name |-> ""]
        found == IF location.name # "" THEN location.name ELSE pick.name
        building_name == IF found # "" THEN found ELSE address.building
        parts == LocationParts(building_name, address)
        called == [Returned0 EXCEPT !.geocoder_calls = 1]
        searched == [called EXCEPT !.geocoder_calls = 1 + Len(searches)]
    IN  IF geo_resp.kind = "raise"
        THEN [Returned0 EXCEPT !.exc = geo_resp.exc,
                               !.geocoder_calls = IF geo_resp.exc = "ImportError"
                                                  THEN 0 ELSE 1]
        ELSE IF geo_resp.kind = "none" THEN called
        ELSE IF location.name = "" /\ pick.exc # "" THEN [searched EXCEPT !.exc = pick.exc]
        ELSE [(IF location.name = "" THEN searched ELSE called) EXCEPT
                 !.none = FALSE,
                 !.value = IF parts # <<>> THEN parts ELSE <<location.full>>]

\* reverse_geocode(latitude, longitude, interactive)
ReverseGeocode(latitude, longitude, interactive, geo_resp, searches, choice) ==
    LET body == ReverseGeocodeBody(latitude, longitude, interactive, geo_resp, searches,
                                   choice)
    IN  IF body.exc # "" /\ GeocodeCatches(body.exc)
        THEN [body EXCEPT !.exc = "", !.none = TRUE, !.value = <<>>]
        ELSE body

\* resolve_location_with_custom(latitude, longitude, check_custom_first, ...,
\* interactive): the custom location when one matches, the geocoded string
\* otherwise; an exception of the geocoder would pass through it
ResolveLocationWithCustom(match, check_custom_first, geocoded) ==
    IF check_custom_first /\ match.found
    THEN [exc |-> "", none |-> FALSE, value |-> <<match.location.name>>,
          is_custom |-> TRUE]
    ELSE [exc |-> geocoded.exc, none |-> geocoded.none, value |-> geocoded.value,
          is_custom |-> FALSE]

\* ---- the state of the geocoders and the calls made on them ----
MaxTime == 3600
TickStep == 1800

\* coordinates in tenths of a millionth of a degree: the first two round to the
\* same millionth, the third to the next one
GeoLatitudes == {6, 14, 16}
OneLatitude == {6}
GeoLongitudes == {3}

NoEntry == [present |-> FALSE, result |-> <<>>, timestamp |-> 0, latitude |-> 0,
            longitude |-> 0, interactive |-> FALSE]

\* the cache entry a call finds under its key
EntryAt(cache, key) ==
    IF key \in DOMAIN cache THEN cache[key] @@ [present |-> TRUE] ELSE NoEntry

NoGeoCall ==
    [fn |-> "", latitude |-> 0, interactive |-> FALSE, use_cache |-> FALSE, t |-> 0,
     entry |-> NoEntry, failed |-> FALSE, ret |-> Returned0, venues |-> <<>>]

GeoIdle ==
    /\ geocode_cache = <<>>
    /\ now = 0
    /\ geo = NoGeoCall

\* one call of reverse_geocode_optimized, the services answering as drawn
CallReverseGeocodeOptimized(latitudes, geo_resps, poi_resps, choices) ==
    \E latitude \in latitudes, longitude \in GeoLongitudes, interactive \in BOOLEAN,
       use_cache \in BOOLEAN,
       geo_resp \in geo_resps, poi_resp \in poi_resps, choice \in choices :
        LET out == ReverseGeocodeOptimized(geocode_cache, now, latitude, longitude,
                                           interactive, use_cache, geo_resp, poi_resp,
                                           choice)
        IN  /\ geocode_cache' = out.cache
            /\ geo' = [fn |-> "reverse_geocode_optimized", latitude |-> latitude,
                       interactive |-> interactive, use_cache |-> use_cache, t |-> now,
                       entry |-> EntryAt(geocode_cache,
                                         <<Round6(latitude), Round6(longitude),
                                           interactive>>),
                       failed |-> ~out.ret.from_cache /\ geo_resp.kind = "raise",
                       ret |-> out.ret, venues |-> <<>>]
            /\ UNCHANGED now
            /\ UNCHANGED otherThanGeo

\* one call of reverse_geocode
CallReverseGeocode ==
    \E latitude \in OneLatitude, longitude \in GeoLongitudes, interactive \in BOOLEAN,
       geo_resp \in FailureGeoResponses, s1 \in FailureSearchResponses,
       s2 \in FailureSearchResponses, choice \in InputResponses :
        LET ret == ReverseGeocode(latitude, longitude, interactive, geo_resp,
                                  <<s1, s2>>, choice)
        IN  /\ geo' = [fn |-> "reverse_geocode", latitude |-> latitude,
                       interactive |-> interactive, use_cache |-> FALSE, t |-> now,
                       entry |-> NoEntry, failed |-> geo_resp.kind = "raise",
                       ret |-> ret, venues |-> <<>>]
            /\ UNCHANGED <<geocode_cache, now>>
            /\ UNCHANGED otherThanGeo

\* one call of search_nearby_pois_overpass
CallSearchNearbyPoisOverpass ==
    \E latitude \in OneLatitude, longitude \in GeoLongitudes, poi_resp \in PoiResponses :
        LET out == SearchNearbyPoisOverpass(poi_resp, PoiRadius)
        IN  /\ geo' = [fn |-> "search_nearby_pois_overpass", latitude |-> latitude,
                       interactive |-> FALSE, use_cache |-> FALSE, t |-> now,
                       entry |-> NoEntry,
                       failed |-> poi_resp.kind = "raise" \/ poi_resp.status # 200,
                       ret |-> [Returned0 EXCEPT !.exc = out.exc, !.none = FALSE,
                                                 !.poi_calls = 1],
                       venues |-> out.venues]
            /\ UNCHANGED <<geocode_cache, now>>
            /\ UNCHANGED otherThanGeo

\* the location step of process_image: resolve_location_with_custom with
\* interactive=False; `failed` when the geocoder was asked and its service failed
CallResolveLocation ==
    \E latitude \in OneLatitude, longitude \in GeoLongitudes,
       check_custom_first \in BOOLEAN,
       locs \in {<<>>, <<[name |-> 1, latitude |-> 0, radius |-> GridStep]>>},
       geo_resp \in FailureGeoResponses, poi_resp \in FailurePoiResponses :
        LET match == FindMatch(locs, 0)
            out == ReverseGeocodeOptimized(geocode_cache, now, latitude, longitude,
                                           FALSE, TRUE, geo_resp, poi_resp, "")
            asked == ~(check_custom_first /\ match.found)
            res == ResolveLocationWithCustom(match, check_custom_first, out.ret)
        IN  /\ geocode_cache' = IF asked THEN out.cache ELSE geocode_cache
            /\ geo' = [fn |-> "process_image", latitude |-> latitude,
                       interactive |-> FALSE, use_cache |-> TRUE, t |-> now,
                       entry |-> NoEntry,
                       failed |-> asked /\ ~out.ret.from_cache /\ geo_resp.kind = "raise",
                       ret |-> [Returned0 EXCEPT !.exc = res.exc, !.none = res.none,
                                                 !.value = res.value],
                       venues |-> <<>>]
            /\ UNCHANGED now
            /\ UNCHANGED otherThanGeo

\* time passes
Tick ==
    /\ now + TickStep <= MaxTime
    /\ now' = now + TickStep
    /\ UNCHANGED <<geocode_cache, geo>>
    /\ UNCHANGED otherThanGeo

GeoNext ==
    \/ CallReverseGeocodeOptimized(OneLatitude, FailureGeoResponses, FailurePoiResponses,
                                   InputResponses)
    \/ CallReverseGeocode
    \/ CallSearchNearbyPoisOverpass
    \/ CallResolveLocation

\* the services that answer, and two that fail, for the calls that fill and read
\* the cache
CacheGeoResponses ==
    { r \in GeoResponses : \/ r.kind = "raise" /\ r.exc = "GeocoderTimedOut"
                           \/ r.kind = "location" /\ r.location.name = ""
                                /\ r.location.address.county # "" }

CachePoiResponses ==
    { r \in PoiResponses : r.kind = "answer" /\ r.status = 200 /\ Len(r.elements) = 2
                           /\ r.elements[1].name = "Cafe" /\ r.elements[2].name = "Bar" }

CacheNext ==
    \/ CallReverseGeocodeOptimized(GeoLatitudes, CacheGeoResponses, CachePoiResponses,
                                   {"2"})
    \/ Tick

\* ------------------------------------------------------------------------
\* FaceRecognizer: reference faces and the encoding cache (face/recognizer.py)
\* ------------------------------------------------------------------------
CacheVersion == 1

\* the image files of the person directory, in the order iterdir() lists them
RefFiles == <<"a.jpg", "b.jpg">>

RefFileSet == { RefFiles[n] : n \in 1..Len(RefFiles) }

\* the names the person directory can have, and the modification times of a file
PersonDirs == {"Ann", "Anna"}
Mtimes == {1, 2}

EmptyMap == [f \in {} |-> 0]

\* _get_file_fingerprint: the md5 of "path|size|mtime", taken as one-to-one; the
\* size of a file changes only together with its mtime
Fingerprint_PathOnly(file_key, stat) == <<file_key, 0>>

Fingerprint(file_key, stat) == <<file_key, stat.mtime>>

\* _encode_face: the encoding of the first face of the file, tagged with the file
\* version it was computed from; none when the file shows no face
NoEncoding == [found |-> FALSE, of |-> <<>>]

EncodeFace(file_key, stat) ==
    IF stat.has_face THEN [found |-> TRUE, of |-> <<file_key, stat.mtime>>]
    ELSE NoEncoding

\* a cache file on disk: absent, cut short by an unfinished write, or complete
AbsentFile == [state |-> "absent", files |-> EmptyMap, version |-> 0]

PartialFile == [state |-> "partial", files |-> EmptyMap, version |-> 0]

CompleteFile(files, version) == [state |-> "complete", files |-> files, version |-> version]

\* `if manifest.get('version') != CACHE_VERSION:` negated
VersionMatches_Newer(manifest) == manifest.version > CacheVersion

VersionMatches(manifest) == manifest.version = CacheVersion

\* what _load_cache returns when there is no usable cache: ({}, {})
EmptyCache == [files |-> EmptyMap, encodings |-> EmptyMap]

\* _load_cache(ref_dir): both files must exist, the manifest must parse and carry
\* the current version, the encodings must unpickle
LoadCache(mf, ef) ==
    IF ef.state = "absent" \/ mf.state = "absent" THEN EmptyCache
    ELSE IF mf.state = "partial" THEN EmptyCache
    ELSE IF ~VersionMatches(mf) THEN EmptyCache
    ELSE IF ef.state = "partial" THEN EmptyCache
    ELSE [files |-> mf.files, encodings |-> ef.files]

\* cached_files.get(file_key, {}).get('fingerprint') / .get('person')
CachedEntry(cached_files, file_key) ==
    IF file_key \in DOMAIN cached_files THEN cached_files[file_key]
    ELSE [fingerprint |-> <<>>, person |-> ""]

\* the test that lets load_reference_faces take the cached encoding of a file
CanReuse_IgnorePerson(use_cache, cached_files, cached_encodings, file_key, fingerprint, name) ==
    /\ use_cache
    /\ CachedEntry(cached_files, file_key).fingerprint = fingerprint
    /\ file_key \in DOMAIN cached_encodings

CanReuse(use_cache, cached_files, cached_encodings, file_key, fingerprint, name) ==
    /\ use_cache
    /\ CachedEntry(cached_files, file_key).fingerprint = fingerprint
    /\ CachedEntry(cached_files, file_key).person = name
    /\ file_key \in DOMAIN cached_encodings

\* the locals of load_reference_faces before the first file
NewLoad(cache) ==
    [person_encodings |-> <<>>, cached_encodings |-> cache.encodings,
     new_manifest_files |-> EmptyMap, from_cache |-> {}, encode_calls |-> {},
     encoded_fresh |-> 0]

\* the body of `for image_path in person_dir.iterdir():` for one image file
LoadFile(acc, file_key, stat, name, use_cache, cached_files) ==
    LET current_fingerprint == Fingerprint(file_key, stat)
        entry == [fingerprint |-> current_fingerprint, person |-> name]
        encoding == EncodeFace(file_key, stat)
    IN  IF CanReuse(use_cache, cached_files, acc.cached_encodings, file_key,
                    current_fingerprint, name)
        THEN [acc EXCEPT !.person_encodings = Append(@, acc.cached_encodings[file_key]),
                         !.from_cache = @ \cup {file_key},
                         !.new_manifest_files = (file_key :> entry) @@ @]
        ELSE IF encoding.found
        THEN [acc EXCEPT !.person_encodings = Append(@, encoding),
                         !.cached_encodings = IF use_cache
                                              THEN (file_key :> encoding) @@ @ ELSE @,
                         !.encode_calls = @ \cup {file_key},
                         !.encoded_fresh = @ + 1,
                         !.new_manifest_files = (file_key :> entry) @@ @]
        ELSE [acc EXCEPT !.encode_calls = @ \cup {file_key}]

RECURSIVE LoadFiles(_, _, _, _, _, _)
\* the loop over the files that exist
LoadFiles(acc, files, disk, name, use_cache, cached_files) ==
    IF files = <<>> THEN acc
    ELSE LoadFiles(IF disk[Head(files)].exists
                   THEN LoadFile(acc, Head(files), disk[Head(files)], name, use_cache,
                                 cached_files)
                   ELSE acc,
                   Tail(files), disk, name, use_cache, cached_files)

\* `if self.use_cache and (encoded_fresh > 0 or len(new_manifest_files) != len(cached_files)):`
NeedsSave(use_cache, acc, cached_files) ==
    /\ use_cache
    /\ \/ acc.encoded_fresh > 0
       \/ Cardinality(DOMAIN acc.new_manifest_files) # Cardinality(DOMAIN cached_files)

\* {k: v for k, v in cached_encodings.items() if k in valid_keys}
PruneEncodings_KeepAll(cached_encodings, valid_keys) == cached_encodings

PruneEncodings(cached_encodings, valid_keys) ==
    [k \in DOMAIN cached_encodings \cap valid_keys |-> cached_encodings[k]]

\* self.reference_faces after the loop: the person's list is replaced when it is
\* not empty
UpdateReferenceFaces(reference_faces, name, person_encodings) ==
    IF person_encodings # <<>> THEN (name :> person_encodings) @@ reference_faces
    ELSE reference_faces

\* the last completed _save_cache: what it wrote, the list the load computed, and
\* the reference files that changed since
NoSave == [valid |-> FALSE, files |-> EmptyMap, encodings |-> EmptyMap,
           person_encodings |-> <<>>, changed |-> {}, renamed |-> FALSE]

NoLoad ==
    [done |-> FALSE, use_cache |-> FALSE, name |-> "", cached |-> EmptyCache,
     present |-> {}, faceless |-> {}, fingerprints |-> EmptyMap, used |-> EmptyMap,
     from_cache |-> {}, encode_calls |-> {}, encoded_fresh |-> 0,
     person_encodings |-> <<>>, saving |-> FALSE, prev |-> NoSave]

\* FaceRecognizer(reference_faces_dir=None, use_cache=...)
NewRecognizer(use_cache) ==
    [pc |-> "idle", use_cache |-> use_cache, reference_faces |-> EmptyMap,
     pending |-> EmptyCache, load |-> NoLoad]

FaceInit ==
    /\ ref \in [RefFileSet -> [exists : {TRUE}, mtime : {1}, has_face : BOOLEAN]]
    /\ person = "Ann"
    /\ manifest_file = AbsentFile
    /\ encodings_file = AbsentFile
    /\ \E use_cache \in BOOLEAN : fr = NewRecognizer(use_cache)
    /\ last = NoSave

\* no recognizer at work
FaceIdle ==
    /\ ref = [f \in RefFileSet |-> [exists |-> TRUE, mtime |-> 1, has_face |-> TRUE]]
    /\ person = "Ann"
    /\ manifest_file = AbsentFile
    /\ encodings_file = AbsentFile
    /\ fr = NewRecognizer(FALSE)
    /\ last = NoSave

\* load_reference_faces(directory) up to the call of _save_cache
LoadReferenceFaces ==
    /\ fr.pc = "idle"
    /\ LET cache == IF fr.use_cache THEN LoadCache(manifest_file, encodings_file)
                    ELSE EmptyCache
           acc == LoadFiles(NewLoad(cache), RefFiles, ref, person, fr.use_cache,
                            cache.files)
           saving == NeedsSave(fr.use_cache, acc, cache.files)
           present == { f \in RefFileSet : ref[f].exists }
       IN  fr' = [fr EXCEPT
                    !.pc = IF saving THEN "save_manifest" ELSE "idle",
                    !.reference_faces = UpdateReferenceFaces(@, person,
                                                             acc.person_encodings),
                    !.pending = [files |-> acc.new_manifest_files,
                                 encodings |-> PruneEncodings(
                                                   acc.cached_encodings,
                                                   DOMAIN acc.new_manifest_files)],
                    !.load = [done |-> TRUE, use_cache |-> fr.use_cache,
                              name |-> person, cached |-> cache,
                              present |-> present,
                              faceless |-> { f \in present : ~ref[f].has_face },
                              fingerprints |-> [f \in present |->
                                                   Fingerprint(f, ref[f])],
                              used |-> [f \in acc.from_cache |-> cache.encodings[f]],
                              from_cache |-> acc.from_cache,
                              encode_calls |-> acc.encode_calls,
                              encoded_fresh |-> acc.encoded_fresh,
                              person_encodings |-> acc.person_encodings,
                              saving |-> saving, prev |-> last]]
    /\ UNCHANGED <<ref, person, manifest_file, encodings_file, last>>
    /\ UNCHANGED otherThanFace

\* _save_cache: open(manifest_path, 'w') empties the manifest file
OpenManifest ==
    /\ fr.pc = "save_manifest"
    /\ manifest_file' = PartialFile
    /\ fr' = [fr EXCEPT !.pc = "manifest_open"]
    /\ last' = NoSave
    /\ UNCHANGED <<ref, person, encodings_file>>
    /\ UNCHANGED otherThanFace

\* _save_cache: json.dump has written the manifest and the file is closed
WriteManifest ==
    /\ fr.pc = "manifest_open"
    /\ manifest_file' = CompleteFile(fr.pending.files, CacheVersion)
    /\ fr' = [fr EXCEPT !.pc = "save_encodings"]
    /\ UNCHANGED <<ref, person, encodings_file, last>>
    /\ UNCHANGED otherThanFace

\* _save_cache: open(encodings_path, 'wb') empties the encodings file
OpenEncodings ==
    /\ fr.pc = "save_encodings"
    /\ encodings_file' = PartialFile
    /\ fr' = [fr EXCEPT !.pc = "encodings_open"]
    /\ UNCHANGED <<ref, person, manifest_file, last>>
    /\ UNCHANGED otherThanFace

\* _save_cache: pickle.dump has written the encodings and the file is closed;
\* load_reference_faces returns
WriteEncodings ==
    /\ fr.pc = "encodings_open"
    /\ encodings_file' = CompleteFile(fr.pending.encodings, CacheVersion)
    /\ fr' = [fr EXCEPT !.pc = "idle"]
    /\ last' = [valid |-> TRUE, files |-> fr.pending.files,
                encodings |-> fr.pending.encodings,
                person_encodings |-> fr.load.person_encodings,
                changed |-> {}, renamed |-> FALSE]
    /\ UNCHANGED <<ref, person, manifest_file>>
    /\ UNCHANGED otherThanFace

\* _save_cache is interrupted: a write raises (the exception is logged and
\* load_reference_faces returns) or the process is killed and a new FaceRecognizer
\* is constructed later; the cache files stay as they are
Interrupt ==
    /\ fr.pc # "idle"
    /\ \/ fr' = [fr EXCEPT !.pc = "idle"]
       \/ \E use_cache \in BOOLEAN : fr' = NewRecognizer(use_cache)
    /\ UNCHANGED <<ref, person, manifest_file, encodings_file, last>>
    /\ UNCHANGED otherThanFace

\* the program ends and is started again: a new FaceRecognizer
Restart ==
    /\ fr.pc = "idle"
    /\ fr.load.done
    /\ \E use_cache \in BOOLEAN : fr' = NewRecognizer(use_cache)
    /\ UNCHANGED <<ref, person, manifest_file, encodings_file, last>>
    /\ UNCHANGED otherThanFace

\* between two loads a reference file is replaced (same path, new mtime); the
\* new picture shows a face or none
ModifyFile ==
    /\ fr.pc = "idle"
    /\ \E f \in RefFileSet, has_face \in BOOLEAN :
         /\ ref[f].exists
         /\ ref[f].mtime + 1 \in Mtimes
         /\ ref' = [ref EXCEPT ![f].mtime = @ + 1, ![f].has_face = has_face]
         /\ last' = [last EXCEPT !.changed = @ \cup {f}]
    /\ UNCHANGED <<person, manifest_file, encodings_file, fr>>
    /\ UNCHANGED otherThanFace

\* between two loads a reference file is deleted
DeleteFile ==
    /\ fr.pc = "idle"
    /\ \E f \in RefFileSet :
         /\ ref[f].exists
         /\ ref' = [ref EXCEPT ![f].exists = FALSE]
         /\ last' = [last EXCEPT !.changed = @ \cup {f}]
    /\ UNCHANGED <<person, manifest_file, encodings_file, fr>>
    /\ UNCHANGED otherThanFace

\* between two loads the person directory gets another name while the resolved
\* paths of its files stay (the directory is a symbolic link)
RenamePersonDir ==
    /\ fr.pc = "idle"
    /\ person = "Ann"
    /\ person' = "Anna"
    /\ last' = [last EXCEPT !.renamed = TRUE]
    /\ UNCHANGED <<ref, manifest_file, encodings_file, fr>>
    /\ UNCHANGED otherThanFace

FaceNext ==
    \/ LoadReferenceFaces
    \/ OpenManifest
    \/ WriteManifest
    \/ OpenEncodings
    \/ WriteEncodings
    \/ Interrupt
    \/ Restart
    \/ ModifyFile
    \/ DeleteFile
    \/ RenamePersonDir

\* ------------------------------------------------------------------------
\* FaceRecognizer.identify_faces
\* ------------------------------------------------------------------------
\* Face encodings are points on a line and face_distance their distance, in
\* hundredths; the tolerance is in hundredths too (the constructor default is 0.6)
FacePoints == {0, 30, 60, 90}
Tolerances == {50, 60}

FaceDistance(ref_encoding, face_encoding) == Abs(ref_encoding - face_encoding)

\* self.reference_faces as the ordered dict it is: person after person
ReferenceFaces ==
    { <<>>,
      <<[person |-> "Ann", encodings |-> <<0>>]>>,
      <<[person |-> "Ann", encodings |-> <<90, 0>>],
        [person |-> "Bob", encodings |-> <<30>>]>>,
      <<[person |-> "Bob", encodings |-> <<60>>],
        [person |-> "Ann", encodings |-> <<60>>]>> }

\* the images: whether PIL can open the file, and the encodings of the faces
\* detection finds in it, in detection order
FaceImages ==
    [readable : BOOLEAN,
     faces : {<<>>} \cup { <<a>> : a \in FacePoints }
             \cup { <<a, b>> : a \in FacePoints, b \in FacePoints }]

\* `if not self.reference_faces:`
NoReferenceFaces_Never(reference_faces) == FALSE

NoReferenceFaces(reference_faces) == reference_faces = <<>>

\* the pairs (person, reference encoding) in the order the two loops visit them
RECURSIVE ReferencePairs(_)
ReferencePairs(reference_faces) ==
    IF reference_faces = <<>> THEN <<>>
    ELSE [n \in 1..Len(Head(reference_faces).encodings) |->
             [person |-> Head(reference_faces).person,
              encoding |-> Head(reference_faces).encodings[n]]]
         \o ReferencePairs(Tail(reference_faces))

NoBest == [found |-> FALSE, person |-> "", distance |-> 0]

RECURSIVE BestMatch(_, _, _)
\* `if distance < best_distance:` over all pairs, best_distance starting at inf
BestMatch(pairs, face_encoding, best) ==
    IF pairs = <<>> THEN best
    ELSE LET distance == FaceDistance(Head(pairs).encoding, face_encoding)
         IN  BestMatch(Tail(pairs), face_encoding,
                       IF ~best.found \/ distance < best.distance
                       THEN [found |-> TRUE, person |-> Head(pairs).person,
                             distance |-> distance]
                       ELSE best)

\* confidence = 1.0 - (best_distance / self.tolerance), in thousandths
Confidence_OneMinusDistance(best_distance, tolerance) == 1000 - 10 * best_distance

Confidence(best_distance, tolerance) == 1000 - (1000 * best_distance) \div tolerance

\* the entry appended for one detected face
IdentifyFace(reference_faces, tolerance, face_encoding) ==
    LET best == BestMatch(ReferencePairs(reference_faces), face_encoding, NoBest)
    IN  IF best.found /\ best.distance <= tolerance
        THEN [name |-> best.person, confidence |-> Confidence(best.distance, tolerance)]
        ELSE [name |-> "Unknown", confidence |-> 0]

\* identify_faces(image_path): the list returned, whether the image was opened and
\* how often face detection ran
IdentifyFaces(reference_faces, tolerance, image) ==
    IF NoReferenceFaces(reference_faces)
    THEN [identified |-> <<>>, opened |-> FALSE, detections |-> 0]
    ELSE IF ~image.readable
    THEN [identified |-> <<>>, opened |-> TRUE, detections |-> 0]
    ELSE [identified |-> [n \in 1..Len(image.faces) |->
                             IdentifyFace(reference_faces, tolerance, image.faces[n])],
          opened |-> TRUE, detections |-> 1]

NoIdentify ==
    [called |-> FALSE, reference_faces |-> <<>>, tolerance |-> 60,
     image |-> [readable |-> FALSE, faces |-> <<>>],
     out |-> [identified |-> <<>>, opened |-> FALSE, detections |-> 0]]

IdentIdle == ident = NoIdentify

\* one identify_faces call on a recognizer with these reference faces
CallIdentifyFaces ==
    /\ \E reference_faces \in ReferenceFaces, tolerance \in Tolerances,
          image \in FaceImages :
         ident' = [called |-> TRUE, reference_faces |-> reference_faces,
                   tolerance |-> tolerance, image |-> image,
                   out |-> IdentifyFaces(reference_faces, tolerance, image)]
    /\ UNCHANGED otherThanIdent

IdentNext == CallIdentifyFaces

\* ------------------------------------------------------------------------
\* PreviewService._format_tags and MetadataFormatter.format_tags
\* ------------------------------------------------------------------------
\* the lists the formatters are called with
GeneratedTagLists == {<<>>, <<"dog", "beach">>, <<"Dog", "dog">>}

ExistingTagLists ==
    {<<>>, <<"Dog">>, <<"Dog", "dog">>, <<"SmugVision">>, <<"smugvision", "SmugVision">>,
     <<"beach", "smugvision">>}

PersonNameLists == {<<>>, <<"Ann Lee">>, <<"dog">>}

LocationTagLists == {<<>>, <<"Louisville">>, <<"beach">>}

\* PreviewService._format_tags(ai_tags, existing_tags, person_names, marker_tag):
\* the existing tags as they are when preserve_existing, then every generated
\* tag, person name and the marker that is not there yet ignoring case
PreviewFormatTags(ai_tags, existing_tags, person_names, marker_tag, preserve_existing) ==
    AddTags(AddTags(AddTags(IF preserve_existing THEN existing_tags ELSE <<>>, ai_tags),
                    person_names),
            <<marker_tag>>)

NoFormat ==
    [called |-> "", ai_tags |-> <<>>, existing_tags |-> <<>>, person_names |-> <<>>,
     location_tags |-> <<>>, preserve_existing |-> TRUE, tags |-> <<>>]

TagsIdle == fmt = NoFormat

\* one call of PreviewService._format_tags
CallPreviewFormatTags ==
    /\ \E ai_tags \in GeneratedTagLists, existing_tags \in ExistingTagLists,
          person_names \in PersonNameLists, preserve_existing \in BOOLEAN :
         fmt' = [called |-> "_format_tags", ai_tags |-> ai_tags,
                 existing_tags |-> existing_tags, person_names |-> person_names,
                 location_tags |-> <<>>, preserve_existing |-> preserve_existing,
                 tags |-> PreviewFormatTags(ai_tags, existing_tags, person_names,
                                            MarkerTag, preserve_existing)]
    /\ UNCHANGED otherThanTags

\* one call of MetadataFormatter.format_tags
CallFormatTags ==
    /\ \E ai_tags \in GeneratedTagLists, existing_tags \in ExistingTagLists,
          person_names \in PersonNameLists, location_tags \in LocationTagLists :
         fmt' = [called |-> "format_tags", ai_tags |-> ai_tags,
                 existing_tags |-> existing_tags, person_names |-> person_names,
                 location_tags |-> location_tags, preserve_existing |-> TRUE,
                 tags |-> FormatTags(ai_tags, existing_tags, person_names,
                                     location_tags, MarkerTag)]
    /\ UNCHANGED otherThanTags

TagsNext ==
    \/ CallPreviewFormatTags
    \/ CallFormatTags

\* ------------------------------------------------------------------------
\* get_preview_service (web/routes/api.py) and PreviewService.face_recognizer
\* ------------------------------------------------------------------------
\* the request threads of the Flask server (threaded=True)
Threads == {"t1", "t2", "t3"}

\* PreviewService(config) while __init__ runs, and when it has returned
NewService ==
    [initialised |-> FALSE, face_recognizer |-> 0, face_recognizer_loaded |-> FALSE,
     init_lock |-> ""]

NoLocals == [new |-> 0, service |-> 0, has_service |-> FALSE, recognizer |-> 0,
             has_recognizer |-> FALSE]

\* the second `if _preview_service is None:`, inside the lock
MissingAfterLock_Unchecked(service) == TRUE

MissingAfterLock(service) == service = 0

WebInit ==
    /\ preview_service = 0
    /\ preview_service_lock = ""
    /\ services = <<>>
    /\ recognizers = 0
    /\ tpc = [t \in Threads |-> "start"]
    /\ got = [t \in Threads |-> NoLocals]

\* no request at work
WebIdle == WebInit

\* get_preview_service: `if _preview_service is None:`
CheckService(t) ==
    /\ tpc[t] = "start"
    /\ tpc' = [tpc EXCEPT ![t] = IF preview_service = 0 THEN "lock" ELSE "return_service"]
    /\ UNCHANGED <<preview_service, preview_service_lock, services, recognizers, got>>
    /\ UNCHANGED otherThanWeb

\* `with _preview_service_lock:`
LockService(t) ==
    /\ tpc[t] = "lock"
    /\ preview_service_lock = ""
    /\ preview_service_lock' = t
    /\ tpc' = [tpc EXCEPT ![t] = "check_again"]
    /\ UNCHANGED <<preview_service, services, recognizers, got>>
    /\ UNCHANGED otherThanWeb

\* the check after the lock was taken
CheckServiceAgain(t) ==
    /\ tpc[t] = "check_again"
    /\ tpc' = [tpc EXCEPT ![t] = IF MissingAfterLock(preview_service)
                                 THEN "construct" ELSE "unlock"]
    /\ UNCHANGED <<preview_service, preview_service_lock, services, recognizers, got>>
    /\ UNCHANGED otherThanWeb

\* PreviewService(config): the instance exists, __init__ is running
ConstructService(t) ==
    /\ tpc[t] = "construct"
    /\ services' = Append(services, NewService)
    /\ got' = [got EXCEPT ![t].new = Len(services) + 1]
    /\ tpc' = [tpc EXCEPT ![t] = "init"]
    /\ UNCHANGED <<preview_service, preview_service_lock, recognizers>>
    /\ UNCHANGED otherThanWeb

\* __init__ has set every field and returns
InitService(t) ==
    /\ tpc[t] = "init"
    /\ services' = [services EXCEPT ![got[t].new].initialised = TRUE]
    /\ tpc' = [tpc EXCEPT ![t] = "assign"]
    /\ UNCHANGED <<preview_service, preview_service_lock, recognizers, got>>
    /\ UNCHANGED otherThanWeb

\* `_preview_service = PreviewService(config)`: the store to the global
AssignService(t) ==
    /\ tpc[t] = "assign"
    /\ preview_service' = got[t].new
    /\ tpc' = [tpc EXCEPT ![t] = "unlock"]
    /\ UNCHANGED <<preview_service_lock, services, recognizers, got>>
    /\ UNCHANGED otherThanWeb

\* the end of the with block
UnlockService(t) ==
    /\ tpc[t] = "unlock"
    /\ preview_service_lock' = ""
    /\ tpc' = [tpc EXCEPT ![t] = "return_service"]
    /\ UNCHANGED <<preview_service, services, recognizers, got>>
    /\ UNCHANGED otherThanWeb

\* `return _preview_service`
ReturnService(t) ==
    /\ tpc[t] = "return_service"
    /\ got' = [got EXCEPT ![t].service = preview_service, ![t].has_service = TRUE]
    /\ tpc' = [tpc EXCEPT ![t] = "fr_check"]
    /\ UNCHANGED <<preview_service, preview_service_lock, services, recognizers>>
    /\ UNCHANGED otherThanWeb

\* face_recognizer: `if self._face_recognizer_loaded:` without the lock
CheckLoaded(t) ==
    /\ tpc[t] = "fr_check"
    /\ tpc' = [tpc EXCEPT ![t] = IF services[got[t].service].face_recognizer_loaded
                                 THEN "fr_return" ELSE "fr_lock"]
    /\ UNCHANGED <<preview_service, preview_service_lock, services, recognizers, got>>
    /\ UNCHANGED otherThanWeb

\* `with self._init_lock:`
LockInit(t) ==
    /\ tpc[t] = "fr_lock"
    /\ services[got[t].service].init_lock = ""
    /\ services' = [services EXCEPT ![got[t].service].init_lock = t]
    /\ tpc' = [tpc EXCEPT ![t] = "fr_check_again"]
    /\ UNCHANGED <<preview_service, preview_service_lock, recognizers, got>>
    /\ UNCHANGED otherThanWeb

\* the check after the lock was taken; `return` leaves the with block
CheckLoadedAgain(t) ==
    /\ tpc[t] = "fr_check_again"
    /\ tpc' = [tpc EXCEPT ![t] = IF services[got[t].service].face_recognizer_loaded
                                 THEN "fr_unlock" ELSE "fr_construct"]
    /\ UNCHANGED <<preview_service, preview_service_lock, services, recognizers, got>>
    /\ UNCHANGED otherThanWeb

\* face recognition is disabled or the reference directory is missing (nothing
\* is constructed), FaceRecognizer(path) raises (caught), or it returns
ConstructRecognizer(t) ==
    /\ tpc[t] = "fr_construct"
    /\ \E outcome \in {"none", "raises", "returns"} :
         /\ recognizers' = IF outcome = "none" THEN recognizers ELSE recognizers + 1
         /\ got' = [got EXCEPT ![t].new = IF outcome = "returns"
                                          THEN recognizers + 1 ELSE 0]
         /\ tpc' = [tpc EXCEPT ![t] = IF outcome = "returns"
                                      THEN "fr_assign" ELSE "fr_loaded"]
    /\ UNCHANGED <<preview_service, preview_service_lock, services>>
    /\ UNCHANGED otherThanWeb

\* `self._face_recognizer = FaceRecognizer(...)`: the store to the field
AssignRecognizer(t) ==
    /\ tpc[t] = "fr_assign"
    /\ services' = [services EXCEPT ![got[t].service].face_recognizer = got[t].new]
    /\ tpc' = [tpc EXCEPT ![t] = "fr_loaded"]
    /\ UNCHANGED <<preview_service, preview_service_lock, recognizers, got>>
    /\ UNCHANGED otherThanWeb

\* `self._face_recognizer_loaded = True`
SetLoaded(t) ==
    /\ tpc[t] = "fr_loaded"
    /\ services' = [services EXCEPT ![got[t].service].face_recognizer_loaded = TRUE]
    /\ tpc' = [tpc EXCEPT ![t] = "fr_unlock"]
    /\ UNCHANGED <<preview_service, preview_service_lock, recognizers, got>>
    /\ UNCHANGED otherThanWeb

\* the end of the with block
UnlockInit(t) ==
    /\ tpc[t] = "fr_unlock"
    /\ services' = [services EXCEPT ![got[t].service].init_lock = ""]
    /\ tpc' = [tpc EXCEPT ![t] = "fr_return"]
    /\ UNCHANGED <<preview_service, preview_service_lock, recognizers, got>>
    /\ UNCHANGED otherThanWeb

\* `return self._face_recognizer`
ReturnRecognizer(t) ==
    /\ tpc[t] = "fr_return"
    /\ got' = [got EXCEPT ![t].recognizer = services[got[t].service].face_recognizer,
                          ![t].has_recognizer = TRUE]
    /\ tpc' = [tpc EXCEPT ![t] = "done"]
    /\ UNCHANGED <<preview_service, preview_service_lock, services, recognizers>>
    /\ UNCHANGED otherThanWeb

WebNext ==
    \E t \in Threads :
        \/ CheckService(t)
        \/ LockService(t)
        \/ CheckServiceAgain(t)
        \/ ConstructService(t)
        \/ InitService(t)
        \/ AssignService(t)
        \/ UnlockService(t)
        \/ ReturnService(t)
        \/ CheckLoaded(t)
        \/ LockInit(t)
        \/ CheckLoadedAgain(t)
        \/ ConstructRecognizer(t)
        \/ AssignRecognizer(t)
        \/ SetLoaded(t)
        \/ UnlockInit(t)
        \/ ReturnRecognizer(t)

\* ------------------------------------------------------------------------
\* The GPS step of ImageProcessor.process_image (processing/processor.py)
\* ------------------------------------------------------------------------
\* an Optional[float]: None, or a number of degrees
NoneCoord == [none |-> TRUE, value |-> 0]

Degrees(v) == [none |-> FALSE, value |-> v]

\* the coordinates a record or a file may carry; 0 is on the equator
HostCoords == {NoneCoord, Degrees(0), Degrees(41)}

\* AlbumImage.has_gps
HasGps_Truthy(image) ==
    /\ ~image.latitude.none /\ image.latitude.value # 0
    /\ ~image.longitude.none /\ image.longitude.value # 0

HasGps(image) == ~image.latitude.none /\ ~image.longitude.none

\* what extract_exif_location finds in the downloaded file: it always returns
\* an ExifLocation, with both coordinates exactly when has_coordinates is set
ExifLocation(latitude, longitude) ==
    [latitude |-> latitude, longitude |-> longitude,
     has_coordinates |-> ~latitude.none /\ ~longitude.none]

ExifFiles == {ExifLocation(NoneCoord, NoneCoord), ExifLocation(Degrees(0), Degrees(7)),
              ExifLocation(Degrees(52), Degrees(13))}

\* what resolve_location_with_custom answers: (location_string, aliases,
\* is_custom), or an exception; a location string is kept as the list of its
\* comma separated parts
ResolverAnswers ==
    { [exc |-> "", location_string |-> <<>>, aliases |-> <<>>, is_custom |-> FALSE],
      [exc |-> "", location_string |-> <<"Lexington", "KY">>, aliases |-> <<>>,
       is_custom |-> FALSE],
      [exc |-> "", location_string |-> <<"Home">>, aliases |-> <<"house">>,
       is_custom |-> TRUE],
      [exc |-> "Exception", location_string |-> <<>>, aliases |-> <<>>,
       is_custom |-> FALSE] }

\* `if latitude is not None and longitude is not None:`
HaveCoordinates_Always(latitude, longitude) == TRUE

HaveCoordinates(latitude, longitude) == ~latitude.none /\ ~longitude.none

NoTags == [none |-> TRUE, value |-> <<>>]

\* `return tags if tags else None` of _extract_location_tags
TagsOrNone(tags) == IF tags = <<>> THEN NoTags ELSE [none |-> FALSE, value |-> tags]

\* process_image from the GPS step on; cfg holds processing.use_exif_location
\* and location.use_aliases_as_tags
ProcessImageLocation(image, file, cfg, answer, has_recognizer, vision_ok) ==
    LET from_host == HasGps(image)
        exif_extracted == ~from_host
        from_exif == exif_extracted /\ file.has_coordinates
        latitude == IF from_host THEN image.latitude
                    ELSE IF from_exif THEN file.latitude ELSE NoneCoord
        longitude == IF from_host THEN image.longitude
                     ELSE IF from_exif THEN file.longitude ELSE NoneCoord
        gps_source == IF from_host THEN "SmugMug API" ELSE IF from_exif THEN "EXIF" ELSE "None"
        resolving == HaveCoordinates(latitude, longitude) /\ cfg.use_exif_location
        raised == resolving /\ answer.exc # ""
        location_string == IF resolving THEN answer.location_string ELSE <<>>
        location_aliases == IF resolving THEN answer.aliases ELSE <<>>
        has_coordinates == IF exif_extracted THEN file.has_coordinates
                           ELSE ~latitude.none /\ ~longitude.none
        own_tags == IF has_coordinates
                    THEN TagsOrNone(ExtractLocationTags(location_string))
                    ELSE NoTags
        location_tags == IF cfg.use_aliases_as_tags /\ location_aliases # <<>>
                         THEN [none |-> FALSE, value |-> own_tags.value \o location_aliases]
                         ELSE own_tags
        done == ~raised /\ vision_ok
    IN  [called |-> TRUE, image |-> image, file |-> file, cfg |-> cfg,
         vision_ok |-> vision_ok,
         exif_extracted |-> exif_extracted,
         gps_source |-> gps_source,
         resolver_calls |-> IF resolving THEN <<[latitude |-> latitude,
                                                longitude |-> longitude]>> ELSE <<>>,
         location_string |-> IF raised THEN <<>> ELSE location_string,
         location_tags |-> IF done THEN location_tags ELSE NoTags,
         faces_identified |-> ~raised /\ has_recognizer,
         generation_called |-> ~raised,
         success |-> done,
         error |-> IF raised THEN answer.exc ELSE IF ~vision_ok THEN "VisionModelError" ELSE ""]

NoLocate ==
    [called |-> FALSE, image |-> [latitude |-> NoneCoord, longitude |-> NoneCoord],
     file |-> ExifLocation(NoneCoord, NoneCoord),
     cfg |-> [use_exif_location |-> TRUE, use_aliases_as_tags |-> TRUE],
     vision_ok |-> TRUE, exif_extracted |-> FALSE, gps_source |-> "None",
     resolver_calls |-> <<>>, location_string |-> <<>>, location_tags |-> NoTags,
     faces_identified |-> FALSE, generation_called |-> FALSE, success |-> FALSE,
     error |-> ""]

\* no call of process_image made
LocIdle == loc = NoLocate

\* process_image on one item, its downloaded file and one configuration
CallProcessImageLocation ==
    /\ ~loc.called
    /\ \E latitude \in HostCoords, longitude \in HostCoords, file \in ExifFiles,
          use_exif_location \in BOOLEAN, use_aliases_as_tags \in BOOLEAN,
          answer \in ResolverAnswers, has_recognizer \in BOOLEAN, vision_ok \in BOOLEAN :
         loc' = ProcessImageLocation([latitude |-> latitude, longitude |-> longitude],
                    file,
                    [use_exif_location |-> use_exif_location,
                     use_aliases_as_tags |-> use_aliases_as_tags],
                    answer, has_recognizer, vision_ok)
    /\ UNCHANGED otherThanLoc

\* the next item
NextItem ==
    /\ loc.called
    /\ loc' = NoLocate
    /\ UNCHANGED otherThanLoc

LocNext == CallProcessImageLocation \/ NextItem

\* ------------------------------------------------------------------------
\* The location string of reverse_geocode_optimized and reverse_geocode
\* ------------------------------------------------------------------------
\* the values a venue name or an address field can have ("" for an absent one)
PartNames == {"", "Jefferson", "Jefferson County"}

NoParts == [called |-> FALSE, building_name |-> "", address |-> NoAddress, parts |-> <<>>]

\* no location string assembled
PartsIdle == built = NoParts

\* the assembly at the end of both geocoders, for one venue and one address
BuildLocationString ==
    \E building_name \in PartNames,
       address \in [building : {""}, city : PartNames, county : PartNames,
                    state : PartNames, country : PartNames] :
        /\ built' = [called |-> TRUE, building_name |-> building_name,
                     address |-> address,
                     parts |-> LocationParts(building_name, address)]
        /\ UNCHANGED otherThanParts

PartsNext == BuildLocationString

\* ------------------------------------------------------------------------
\* get_resolver (utils/locations.py) and _geocode_cache (utils/exif_optimized.py)
\* under concurrent batches
\* ------------------------------------------------------------------------
NoHeld == [new |-> 0, resolver |-> 0, returned |-> FALSE]

\* one read or write of a module global; neither module has a lock, so none is
\* held
Access(t, variable, kind) == [thread |-> t, variable |-> variable, kind |-> kind, lock |-> ""]

SharedInit ==
    /\ default_resolver = 0
    /\ resolvers = 0
    /\ bpc = [t \in Threads |-> "call"]
    /\ held = [t \in Threads |-> NoHeld]
    /\ accesses = {}

\* no batch at work
SharedIdle == SharedInit

\* get_resolver(): `elif _default_resolver is None:`
CheckResolver(t) ==
    /\ bpc[t] = "call"
    /\ bpc' = [bpc EXCEPT ![t] = IF default_resolver = 0 THEN "construct" ELSE "return"]
    /\ accesses' = accesses \cup {Access(t, "_default_resolver", "read")}
    /\ UNCHANGED <<default_resolver, resolvers, held>>
    /\ UNCHANGED otherThanShared

\* LocationResolver(): the constructor runs and loads the gazetteer
ConstructResolver(t) ==
    /\ bpc[t] = "construct"
    /\ resolvers' = resolvers + 1
    /\ held' = [held EXCEPT ![t].new = resolvers + 1]
    /\ bpc' = [bpc EXCEPT ![t] = "assign"]
    /\ UNCHANGED <<default_resolver, accesses>>
    /\ UNCHANGED otherThanShared

\* `_default_resolver = LocationResolver()`: the store to the global
AssignResolver(t) ==
    /\ bpc[t] = "assign"
    /\ default_resolver' = held[t].new
    /\ accesses' = accesses \cup {Access(t, "_default_resolver", "write")}
    /\ bpc' = [bpc EXCEPT ![t] = "return"]
    /\ UNCHANGED <<resolvers, held>>
    /\ UNCHANGED otherThanShared

\* `return _default_resolver`
ReturnResolver(t) ==
    /\ bpc[t] = "return"
    /\ held' = [held EXCEPT ![t].resolver = default_resolver, ![t].returned = TRUE]
    /\ accesses' = accesses \cup {Access(t, "_default_resolver", "read")}
    /\ bpc' = [bpc EXCEPT ![t] = "lookup"]
    /\ UNCHANGED <<default_resolver, resolvers>>
    /\ UNCHANGED otherThanShared

\* reverse_geocode_optimized: `cache_key in _geocode_cache` and the read of the
\* entry
LookupCache(t) ==
    /\ bpc[t] = "lookup"
    /\ accesses' = accesses \cup {Access(t, "_geocode_cache", "read")}
    /\ bpc' = [bpc EXCEPT ![t] = "store"]
    /\ UNCHANGED <<default_resolver, resolvers, held>>
    /\ UNCHANGED otherThanShared

\* reverse_geocode_optimized: `_geocode_cache[cache_key] = (location_str, time.time())`
StoreCache(t) ==
    /\ bpc[t] = "store"
    /\ accesses' = accesses \cup {Access(t, "_geocode_cache", "write")}
    /\ bpc' = [bpc EXCEPT ![t] = "done"]
    /\ UNCHANGED <<default_resolver, resolvers, held>>
    /\ UNCHANGED otherThanShared

SharedNext ==
    \E t \in Threads :
        \/ CheckResolver(t)
        \/ ConstructResolver(t)
        \/ AssignResolver(t)
        \/ ReturnResolver(t)
        \/ LookupCache(t)
        \/ StoreCache(t)

\* ------------------------------------------------------------------------
\* PreviewService: process_preview and commit_changes on one job
\* (web/services/preview.py)
\* ------------------------------------------------------------------------
\* the number of images of the job's album
PreviewTotal == 2

\* the status streams opened for the job (GET /preview/status?job_id=...)
Streams == {"s1", "s2"}

\* the album's images after the video filter; the even ones carry the marker tag
PreviewImage(k) ==
    [image_key |-> k, caption |-> <<"old", k>>,
     keywords |-> IF k % 2 = 0 THEN <<"smugvision">> ELSE <<>>]

\* _process_single_image: skipped for a marked image unless forced, an error
\* result when a step raises, else the proposed caption and keywords; a skipped
\* or failed result carries the current caption and keywords
ProcessSingleImage(image, force_reprocess, marker_tag, raises) ==
    IF ~force_reprocess /\ HasMarkerTag(image.keywords, marker_tag)
    THEN [image_key |-> image.image_key, status |-> "skipped",
          proposed_caption |-> image.caption, proposed_keywords |-> image.keywords]
    ELSE IF raises
    THEN [image_key |-> image.image_key, status |-> "error",
          proposed_caption |-> image.caption, proposed_keywords |-> image.keywords]
    ELSE [image_key |-> image.image_key, status |-> "processed",
          proposed_caption |-> <<"ai", image.image_key>>,
          proposed_keywords |-> PreviewFormatTags(<<"dog">>, image.keywords, <<>>,
                                                  marker_tag, TRUE)]

\* the statistics update of one loop iteration of process_preview
CountPreview(j, result) ==
    IF result.status = "processed" THEN [j EXCEPT !.processed_count = @ + 1]
    ELSE IF result.status = "skipped" THEN [j EXCEPT !.skipped_count = @ + 1]
    ELSE [j EXCEPT !.error_count = @ + 1]

\* `if job.status != "complete": raise ValueError` of commit_changes, negated
CommitAllowed(status) == status = "complete"

\* `if result.status != "processed": continue` of commit_changes, negated
Committable_AnyResult(result) == TRUE

Committable(result) == result.status = "processed"

\* the update_image_metadata call of commit_changes for one result
CommitCall(result) ==
    [image_key |-> result.image_key, caption |-> result.proposed_caption,
     keywords |-> result.proposed_keywords]

\* the calls of one commit_changes over the job's results, in order
CommitCalls(results) ==
    LET sel == SelectSeq(results, Committable)
    IN  [n \in 1..Len(sel) |-> CommitCall(sel[n])]

NoCommit == [called |-> FALSE, rejected |-> FALSE, status |-> "", results |-> <<>>,
             calls |-> <<>>]

\* create_preview_job has stored the job: PreviewJob(status="processing",
\* total_images=len(images))
NewJob ==
    [status |-> "processing", total_images |-> PreviewTotal, results |-> <<>>,
     processed_count |-> 0, skipped_count |-> 0, error_count |-> 0]

JobInit ==
    /\ job = NewJob
    /\ spc = [s \in Streams |-> "idle"]
    /\ sloc = [s \in Streams |-> [force_reprocess |-> FALSE, i |-> 1]]
    /\ commit = NoCommit

\* no job at work
JobIdle == JobInit

\* a status stream calls process_preview(job_id, force_reprocess): the job is
\* found and the listing fetched
StartPreview(s) ==
    /\ spc[s] = "idle"
    /\ \E force_reprocess \in BOOLEAN :
         sloc' = [sloc EXCEPT ![s] = [force_reprocess |-> force_reprocess, i |-> 1]]
    /\ spc' = [spc EXCEPT ![s] = "loop"]
    /\ UNCHANGED <<job, commit>>
    /\ UNCHANGED otherThanJob

\* get_album or get_album_images raises: `job.status = "error"`
PreviewFails(s) ==
    /\ spc[s] = "idle"
    /\ job' = [job EXCEPT !.status = "error"]
    /\ spc' = [spc EXCEPT ![s] = "done"]
    /\ UNCHANGED <<sloc, commit>>
    /\ UNCHANGED otherThanJob

\* one loop iteration: the image is processed, its result appended and counted
PreviewOne(s) ==
    /\ spc[s] = "loop"
    /\ sloc[s].i <= PreviewTotal
    /\ \E raises \in BOOLEAN :
         LET result == ProcessSingleImage(PreviewImage(sloc[s].i),
                                          sloc[s].force_reprocess, MarkerTag, raises)
         IN  job' = CountPreview([job EXCEPT !.results = Append(@, result)], result)
    /\ sloc' = [sloc EXCEPT ![s].i = @ + 1]
    /\ UNCHANGED <<spc, commit>>
    /\ UNCHANGED otherThanJob

\* after the last image: `job.status = "complete"`
PreviewComplete(s) ==
    /\ spc[s] = "loop"
    /\ sloc[s].i > PreviewTotal
    /\ job' = [job EXCEPT !.status = "complete"]
    /\ spc' = [spc EXCEPT ![s] = "done"]
    /\ UNCHANGED <<sloc, commit>>
    /\ UNCHANGED otherThanJob

\* POST /commit: commit_changes(job_id)
CommitChanges ==
    /\ commit' = IF CommitAllowed(job.status)
                 THEN [called |-> TRUE, rejected |-> FALSE, status |-> job.status,
                       results |-> job.results, calls |-> CommitCalls(job.results)]
                 ELSE [called |-> TRUE, rejected |-> TRUE, status |-> job.status,
                       results |-> job.results, calls |-> <<>>]
    /\ UNCHANGED <<job, spc, sloc>>
    /\ UNCHANGED otherThanJob

JobNext ==
    \/ \E s \in Streams :
         \/ StartPreview(s)
         \/ PreviewFails(s)
         \/ PreviewOne(s)
         \/ PreviewComplete(s)
    \/ CommitChanges

\* ------------------------------------------------------------------------
\* The image download into the cache directory (processing/processor.py
\* _download_image, smugmug/client.py download_image, cache/manager.py)
\* ------------------------------------------------------------------------
\* the items of the host: 1 and 2 are distinct items with the same file name
\* in albums of the same name, 3 and 4 differ from them in file or album name
FetchItems ==
    { [image_key |-> 1, album_name |-> "Trip", file_name |-> "IMG_1.jpg"],
      [image_key |-> 2, album_name |-> "Trip", file_name |-> "IMG_1.jpg"],
      [image_key |-> 3, album_name |-> "Trip", file_name |-> "IMG_2.jpg"],
      [image_key |-> 4, album_name |-> "Home", file_name |-> "IMG_1.jpg"] }

\* get_album_cache_dir(album_name, folder_path=None): the flat structure,
\* cache_dir / album_name
GetAlbumCacheDir(album_name, folder_path) ==
    IF folder_path # "" THEN <<folder_path, album_name>> ELSE <<album_name>>

\* `Path(destination) / image.file_name`
DestPath(destination, file_name) == Append(destination, file_name)

CachePaths ==
    { DestPath(GetAlbumCacheDir(item.album_name, ""), item.file_name) : item \in FetchItems }

\* download_image: None when skip_if_exists and the file is there, else the
\* bytes of the item are written and the path returned; a failed download raises
DownloadImage(disk, item, destination, skip_if_exists, response) ==
    LET dest_path == DestPath(destination, item.file_name)
    IN  IF skip_if_exists /\ disk[dest_path] # 0
        THEN [path |-> <<>>, raised |-> FALSE, disk |-> disk]
        ELSE IF response = "ok"
        THEN [path |-> dest_path, raised |-> FALSE,
              disk |-> [disk EXCEPT ![dest_path] = item.image_key]]
        ELSE [path |-> <<>>, raised |-> TRUE, disk |-> disk]

\* _download_image: the download with skip_if_exists=True; an exception is
\* logged and None returned
DownloadToCache(disk, item, response) ==
    DownloadImage(disk, item, GetAlbumCacheDir(item.album_name, ""), TRUE, response)

\* process_image, lines 314-327: the path analysed is the one returned, or the
\* one built from album name and file name when the download returned None
ImagePath(item, download) ==
    IF download.path # <<>> THEN download.path
    ELSE DestPath(GetAlbumCacheDir(item.album_name, ""), item.file_name)

DiskInit ==
    /\ cache_files = [p \in CachePaths |-> 0]
    /\ source_of = [k \in { item.image_key : item \in FetchItems } |-> 0]
    /\ fetch_errors = {}

\* no download at work
DiskIdle == DiskInit

\* one item of some batch is downloaded and analysed from image_path
FetchAndAnalyse(item) ==
    \E response \in {"ok", "fail"} :
        LET download   == DownloadToCache(cache_files, item, response)
            image_path == ImagePath(item, download)
        IN  /\ cache_files' = download.disk
            /\ IF download.disk[image_path] = 0
               THEN /\ fetch_errors' = fetch_errors \cup {item.image_key}
                    /\ UNCHANGED source_of
               ELSE /\ source_of' = [source_of EXCEPT ![item.image_key] =
                                                          download.disk[image_path]]
                    /\ UNCHANGED fetch_errors
            /\ UNCHANGED otherThanDisk

DiskNext == \E item \in FetchItems : FetchAndAnalyse(item)

\* ------------------------------------------------------------------------
\* Specifications
\* ------------------------------------------------------------------------
Init == PipeInit /\ MatchIdle /\ GeoIdle /\ FaceIdle /\ IdentIdle /\ TagsIdle /\ WebIdle /\ LocIdle /\ PartsIdle /\ SharedIdle /\ JobIdle /\ DiskIdle

Spec == Init /\ [][Next]_vars

SpecMatchInit == MatchInit /\ PipeIdle /\ GeoIdle /\ FaceIdle /\ IdentIdle /\ TagsIdle /\ WebIdle /\ LocIdle /\ PartsIdle /\ SharedIdle /\ JobIdle /\ DiskIdle

SpecMatch == SpecMatchInit /\ [][MatchNext]_vars

SpecGeoInit == GeoIdle /\ PipeIdle /\ MatchIdle /\ FaceIdle /\ IdentIdle /\ TagsIdle /\ WebIdle /\ LocIdle /\ PartsIdle /\ SharedIdle /\ JobIdle /\ DiskIdle

SpecGeo == SpecGeoInit /\ [][GeoNext]_vars

SpecCache == SpecGeoInit /\ [][CacheNext]_vars

SpecFacesInit == FaceInit /\ PipeIdle /\ MatchIdle /\ GeoIdle /\ IdentIdle /\ TagsIdle /\ WebIdle /\ LocIdle /\ PartsIdle /\ SharedIdle /\ JobIdle /\ DiskIdle

SpecFaces == SpecFacesInit /\ [][FaceNext]_vars

SpecIdentifyInit == IdentIdle /\ PipeIdle /\ MatchIdle /\ GeoIdle /\ FaceIdle /\ TagsIdle /\ WebIdle /\ LocIdle /\ PartsIdle /\ SharedIdle /\ JobIdle /\ DiskIdle

SpecIdentify == SpecIdentifyInit /\ [][IdentNext]_vars

SpecTagsInit == TagsIdle /\ PipeIdle /\ MatchIdle /\ GeoIdle /\ FaceIdle /\ IdentIdle /\ WebIdle /\ LocIdle /\ PartsIdle /\ SharedIdle /\ JobIdle /\ DiskIdle

SpecTags == SpecTagsInit /\ [][TagsNext]_vars

SpecWebStart == WebInit /\ PipeIdle /\ MatchIdle /\ GeoIdle /\ FaceIdle /\ IdentIdle /\ TagsIdle /\ LocIdle /\ PartsIdle /\ SharedIdle /\ JobIdle /\ DiskIdle

SpecWeb == SpecWebStart /\ [][WebNext]_vars

SpecLocateStart == LocIdle /\ PipeIdle /\ MatchIdle /\ GeoIdle /\ FaceIdle /\ IdentIdle /\ TagsIdle /\ WebIdle /\ PartsIdle /\ SharedIdle /\ JobIdle /\ DiskIdle

SpecLocate == SpecLocateStart /\ [][LocNext]_vars

SpecPartsStart == PipeIdle /\ MatchIdle /\ GeoIdle /\ FaceIdle /\ IdentIdle /\ TagsIdle /\ WebIdle /\ LocIdle /\ PartsIdle /\ SharedIdle /\ JobIdle /\ DiskIdle

SpecParts == SpecPartsStart /\ [][PartsNext]_vars

SpecSharedStart == PipeIdle /\ MatchIdle /\ GeoIdle /\ FaceIdle /\ IdentIdle /\ TagsIdle /\ WebIdle /\ LocIdle /\ PartsIdle /\ SharedIdle /\ JobIdle /\ DiskIdle

SpecShared == SpecSharedStart /\ [][SharedNext]_vars

SpecPreviewStart == PipeIdle /\ MatchIdle /\ GeoIdle /\ FaceIdle /\ IdentIdle /\ TagsIdle /\ WebIdle /\ LocIdle /\ PartsIdle /\ SharedIdle /\ JobIdle /\ DiskIdle

SpecPreview == SpecPreviewStart /\ [][JobNext]_vars

SpecFetchStart == PipeIdle /\ MatchIdle /\ GeoIdle /\ FaceIdle /\ IdentIdle /\ TagsIdle /\ WebIdle /\ LocIdle /\ PartsIdle /\ SharedIdle /\ JobIdle /\ DiskIdle

SpecFetch == SpecFetchStart /\ [][DiskNext]_vars

\* ========================================================================
\* Properties of the batch (checked under Spec)
\* ========================================================================
Results == stats.results

\* the results so far, with the one process_image has returned and the loop has
\* not appended yet
Returned == IF pc = "append" THEN Append(Results, cur) ELSE Results

Errored(r) == ~r.success /\ ~r.skipped

\* C1: an exception inside process_image for item i gives item i a result with
\* success = false and an error recorded, is counted in stats.errors exactly once,
\* and does not stop the batch: process_image is still called for every later
\* item, so a batch that got its listing always ends with one call per item.
C1_ErrorIsolation ==
    /\ Len(excs) = Len(started)
    /\ \A k \in 1..Len(Returned) :
         excs[k] # "" => /\ ~Returned[k].success
                         /\ ~Returned[k].skipped
                         /\ Returned[k].error # ""
    /\ stats.errors = Cardinality({ k \in 1..Len(Results) : excs[k] # "" })
    /\ (started # <<>>) => pc \in {"loop", "append", "done"}
    /\ (pc = "done") => started = [k \in 1..Len(images) |-> images[k].image_key]

\* the first item failed and the second was processed all the same
C1_Witness ==
    /\ pc = "done"
    /\ Len(Results) >= 2
    /\ excs[1] # ""
    /\ Results[2].success
    /\ stats.errors = 1

\* C2 (as claimed): an item whose commit succeeded in a first run with
\* force_reprocess = false is skipped by a second run with force_reprocess = false
\* that reads it from the host again.
C2_SecondRunSkips ==
    (rerun /\ ~params.force_reprocess) =>
        \A k \in 1..Len(Returned) :
            Returned[k].image_key \in committed => Returned[k].skipped

\* C3: process_image returns a skipped result exactly when force_reprocess is false
\* and some existing keyword equals the marker tag ignoring case; whatever else the
\* item, the processor or the earlier run hold.
C3_SkipDecision ==
    \A k \in 1..Len(Returned) :
        Returned[k].skipped <=>
            /\ ~params.force_reprocess
            /\ \E n \in 1..Len(images[k].keywords) :
                   images[k].keywords[n] \in {"smugvision", "SmugVision"}

\* a marker in another letter case skipped one item, and under force_reprocess an
\* item with the marker was processed
C3_Witness ==
    /\ pc = "done"
    /\ \E k \in 1..Len(Results) :
         /\ images[k].keywords = <<"SmugVision">>
         /\ \/ Results[k].skipped /\ ~rerun
            \/ ~Results[k].skipped /\ params.force_reprocess /\ rerun

\* C4: with dry_run = true update_image_metadata is never called and the host's
\* records stay as they were.
C4_DryRunNoCommit ==
    dry_run => /\ updates = <<>>
               /\ \A k \in ImageKeys : host[k] \in HostRecords

\* a dry run that processed an item and proposed metadata for it
C4_Witness ==
    /\ dry_run
    /\ pc = "done"
    /\ \E k \in 1..Len(Results) : Results[k].success /\ Results[k].proposed

\* C5 (as claimed): a dry run and a committing run of the same item propose the same
\* caption, keywords, faces and location, and the caption and keywords sent to the
\* host are exactly the proposed ones.
C5_PreviewCommitParity ==
    /\ \A k \in 1..Len(images) : \A resp \in Responses : \A c \in BOOLEAN :
         LET dry == ProcessImage(images[k], params.force_reprocess, TRUE, c,
                                 [resp EXCEPT !.update = "ok"]).result
             wet == ProcessImage(images[k], params.force_reprocess, FALSE, c,
                                 [resp EXCEPT !.update = "ok"]).result
         IN  /\ dry.proposed_caption = wet.proposed_caption
             /\ dry.proposed_keywords = wet.proposed_keywords
             /\ dry.detected_faces = wet.detected_faces
             /\ dry.location = wet.location
    /\ \A n \in 1..Len(updates) : \A k \in 1..Len(Returned) :
         Returned[k].image_key = updates[n].image_key =>
             /\ updates[n].caption = Returned[k].proposed_caption
             /\ updates[n].keywords = Keywords(Returned[k].proposed_keywords)

\* C6: the results are those of the video-filtered listing, in listing order, none
\* left out or repeated, and an item is started only after the result of the one
\* before it has been appended.
C6_ResultsInListingOrder ==
    /\ Len(Results) <= Len(images)
    /\ \A k \in 1..Len(Results) :
         /\ Results[k].image_key = images[k].image_key
         /\ Results[k].current_keywords = images[k].keywords
    /\ \A k \in 1..Len(started) : started[k] = images[k].image_key
    /\ Len(started) = Len(Results) + (IF pc = "append" THEN 1 ELSE 0)
    /\ \A j, k \in 1..Len(images) : j < k => images[j].image_key < images[k].image_key
    /\ \A k \in 1..Len(images) : params.skip_videos => ~images[k].is_video
    /\ (pc = "done" /\ ~params.skip_videos) => Len(images) = MaxImages
    /\ (pc = "done") => Len(Results) = Len(images)

\* two items were listed, the first failed and the second was skipped, and both
\* results are there in listing order
C6_Witness ==
    /\ pc = "done"
    /\ params.skip_videos
    /\ Len(Results) >= 2
    /\ Errored(Results[1])
    /\ Results[2].skipped

\* C7: when get_album or get_album_images raises, process_album ends with that
\* exception and has called process_image for no item: nothing was downloaded,
\* analysed or updated.
C7_FetchFailureAborts ==
    fetch_failed => /\ pc = "raised"
                    /\ started = <<>>
                    /\ downloads = {}
                    /\ analysed = {}
                    /\ updates = <<>>
                    /\ Results = <<>>

\* the listing failed in the second call, after a first call that had downloaded
C7_Witness ==
    /\ fetch_failed
    /\ pc = "raised"
    /\ rerun
    /\ cached # {}

\* ========================================================================
\* Properties of find_match (checked under SpecMatch)
\* ========================================================================
\* the distance of the k-th region of the last call to the query point
FmDistance(k) == HaversineDistance(fm.latitude, fm.locs[k].latitude)

\* the k-th region of the last call contains the query point
FmContains(k) == FmDistance(k) <= fm.locs[k].radius

FmReturned(k) == fm.result.found /\ fm.result.location = fm.locs[k]

\* C8 (as claimed): find_match returns region R exactly when R contains the point
\* and no other containing region is strictly closer, and None exactly when no
\* region contains the point.
C8_ClosestExactlyWhen ==
    fm.called =>
        /\ \A k \in 1..Len(fm.locs) :
             FmReturned(k) <=>
                 /\ FmContains(k)
                 /\ \A j \in 1..Len(fm.locs) :
                      (j # k /\ FmContains(j)) => FmDistance(j) >= FmDistance(k)
        /\ ~fm.result.found <=> ~\E k \in 1..Len(fm.locs) : FmContains(k)

\* C8 (amended): find_match returns region R exactly when R contains the point, no
\* other containing region is strictly closer and no containing region earlier in
\* the list is equally close; it returns None exactly when no region contains the
\* point. The distance it reports is that of the region returned.
C8_ClosestFirstOnTie ==
    fm.called =>
        /\ \A k \in 1..Len(fm.locs) :
             FmReturned(k) <=>
                 /\ FmContains(k)
                 /\ \A j \in 1..Len(fm.locs) :
                      (j # k /\ FmContains(j)) =>
                          \/ FmDistance(j) > FmDistance(k)
                          \/ FmDistance(j) = FmDistance(k) /\ j > k
        /\ ~fm.result.found <=> ~\E k \in 1..Len(fm.locs) : FmContains(k)
        /\ \A k \in 1..Len(fm.locs) :
             FmReturned(k) => fm.result.distance = FmDistance(k)

\* two regions contain the point, the second is strictly closer and is returned
C8_Witness ==
    /\ fm.called
    /\ Len(fm.locs) = 2
    /\ FmContains(1) /\ FmContains(2)
    /\ FmDistance(2) < FmDistance(1)
    /\ FmReturned(2)

\* ========================================================================
\* Properties of the geocoders (checked under SpecGeo and SpecCache)
\* ========================================================================

\* C9: reverse_geocode_optimized, reverse_geocode and search_nearby_pois_overpass
\* never let an exception out, whatever the services do: when the geocoder or
\* the Overpass request fails the answer is None, respectively the empty list,
\* and the location step of process_image sees no exception either.
C9_NeverRaises ==
    /\ geo.ret.exc = ""
    /\ geo.failed =>
          IF geo.fn = "search_nearby_pois_overpass" THEN geo.venues = <<>>
          ELSE geo.ret.none

C9_Witness ==
    /\ geo.fn = "reverse_geocode_optimized"
    /\ geo.failed
    /\ geo.ret.geocoder_calls = 1
    /\ geo.ret.none

\* the entry found by the last call is younger than the time-to-live
GeoEntryFresh == geo.entry.present /\ geo.t - geo.entry.timestamp < CacheTtl

\* C10: with use_cache a call that finds an entry younger than 3600 seconds under
\* (latitude and longitude rounded to 6 decimals, interactive) returns the stored
\* string and calls neither the geocoder nor Overpass; nothing is returned from
\* the cache without use_cache or from an entry 3600 seconds old or older, and
\* never an entry that was obtained with the other interactive flag.
C10_CacheHit ==
    geo.fn = "reverse_geocode_optimized" =>
        /\ (geo.use_cache /\ GeoEntryFresh) =>
              /\ geo.ret.from_cache
              /\ ~geo.ret.none
              /\ geo.ret.value = geo.entry.result
              /\ geo.ret.geocoder_calls = 0
              /\ geo.ret.poi_calls = 0
        /\ geo.ret.from_cache =>
              /\ geo.use_cache
              /\ GeoEntryFresh
              /\ geo.entry.interactive = geo.interactive
              /\ Round6(geo.entry.latitude) = Round6(geo.latitude)

C10_Witness ==
    /\ geo.fn = "reverse_geocode_optimized"
    /\ geo.ret.from_cache
    /\ geo.entry.latitude # geo.latitude
    /\ geo.t > geo.entry.timestamp

\* ========================================================================
\* Properties of the face-encoding cache (checked under SpecFaces)
\* ========================================================================

\* the last load ran with caching on a cache that had been saved completely, and
\* nothing in the reference directory changed since that save
AfterSaveUnchanged ==
    /\ fr.load.done
    /\ fr.load.use_cache
    /\ fr.load.prev.valid
    /\ fr.load.prev.changed = {}
    /\ ~fr.load.prev.renamed

\* C11: load_reference_faces takes the cached encoding of a file only if the
\* manifest's fingerprint of the file equals the fingerprint computed now and the
\* manifest's person equals the name of the person directory; every other file
\* is handed to _encode_face.
C11_ReuseOnlyIfValid ==
    fr.load.done =>
        \A f \in fr.load.present :
            /\ f \in fr.load.from_cache =>
                  /\ f \in DOMAIN fr.load.cached.files
                  /\ fr.load.cached.files[f].fingerprint = fr.load.fingerprints[f]
                  /\ fr.load.cached.files[f].person = fr.load.name
            /\ f \notin fr.load.from_cache <=> f \in fr.load.encode_calls

\* a file whose fingerprint and cached encoding are there but whose person
\* changed is encoded afresh
C11_Witness ==
    /\ fr.load.done
    /\ \E f \in fr.load.present :
         /\ f \in DOMAIN fr.load.cached.files
         /\ f \in DOMAIN fr.load.cached.encodings
         /\ fr.load.cached.files[f].fingerprint = fr.load.fingerprints[f]
         /\ fr.load.cached.files[f].person # fr.load.name
         /\ f \in fr.load.encode_calls

\* C12 (as claimed): a load after a completed save with unchanged files reads
\* back the encodings that were saved, hands no file to _encode_face and
\* computes the same list of reference faces.
C12_RoundTrip ==
    AfterSaveUnchanged =>
        /\ fr.load.cached.files = fr.load.prev.files
        /\ fr.load.cached.encodings = fr.load.prev.encodings
        /\ fr.load.encode_calls = {}
        /\ fr.load.person_encodings = fr.load.prev.person_encodings

\* C12 (amended): a load after a completed save with unchanged files reads back
\* the encodings that were saved, hands to _encode_face exactly the files in
\* which no face was found (which have no saved encoding), adds no encoding,
\* saves nothing and computes the same list of reference faces.
C12_RoundTripOfFaces ==
    AfterSaveUnchanged =>
        /\ fr.load.cached.files = fr.load.prev.files
        /\ fr.load.cached.encodings = fr.load.prev.encodings
        /\ fr.load.encode_calls = fr.load.faceless
        /\ fr.load.encode_calls \cap DOMAIN fr.load.prev.encodings = {}
        /\ fr.load.encoded_fresh = 0
        /\ ~fr.load.saving
        /\ fr.load.person_encodings = fr.load.prev.person_encodings

C12_Witness ==
    /\ AfterSaveUnchanged
    /\ fr.load.from_cache # {}
    /\ fr.load.faceless # {}

\* the last load ran with caching on a completely saved cache after exactly one
\* reference file, the file f, got new content
OneFileChanged(f) ==
    /\ fr.load.done
    /\ fr.load.use_cache
    /\ fr.load.prev.valid
    /\ ~fr.load.prev.renamed
    /\ fr.load.prev.changed = {f}
    /\ f \in fr.load.present

\* C13 (as claimed): when exactly one file changed between two loads, the second
\* load hands only that file to _encode_face; every other file comes from the
\* cache with the encoding that was saved, and that encoding stays in the cache.
C13_OnlyChangedReencoded ==
    \A f \in RefFileSet :
        OneFileChanged(f) =>
            /\ fr.load.encode_calls = {f}
            /\ \A g \in fr.load.present \ {f} :
                 /\ g \in fr.load.from_cache
                 /\ fr.load.used[g] = fr.load.prev.encodings[g]
                 /\ fr.pending.encodings[g] = fr.load.prev.encodings[g]

\* C13 (amended): when exactly one file changed between two loads, the second
\* load hands to _encode_face that file and the files in which no face was found
\* before; every other file comes from the cache with the encoding that was
\* saved, and that encoding stays in the cache.
C13_OnlyChangedAndFaceless ==
    \A f \in RefFileSet :
        OneFileChanged(f) =>
            /\ fr.load.encode_calls = {f} \cup fr.load.faceless
            /\ \A g \in fr.load.present \ ({f} \cup fr.load.faceless) :
                 /\ g \in fr.load.from_cache
                 /\ fr.load.used[g] = fr.load.prev.encodings[g]
                 /\ fr.pending.encodings[g] = fr.load.prev.encodings[g]

C13_Witness ==
    \E f \in RefFileSet :
        /\ OneFileChanged(f)
        /\ f \in fr.load.encode_calls
        /\ \E g \in fr.load.present \ {f} : g \in fr.load.from_cache

\* C14: whatever interrupted earlier saves, an encoding a load takes from the
\* cache was computed from the version of the file that the manifest's
\* fingerprint describes.
C14_AllOrNothing ==
    fr.load.done =>
        \A f \in fr.load.from_cache :
            fr.load.used[f].of = fr.load.cached.files[f].fingerprint

\* ========================================================================
\* Properties of identify_faces (checked under SpecIdentify)
\* ========================================================================

\* C15: with no reference face loaded identify_faces returns the empty list
\* without opening the image and without running face detection.
C15_NoReferenceNoDetection ==
    (ident.called /\ ident.reference_faces = <<>>) =>
        /\ ident.out.identified = <<>>
        /\ ~ident.out.opened
        /\ ident.out.detections = 0

C15_Witness ==
    /\ ident.called
    /\ ident.reference_faces = <<>>
    /\ ident.image.readable
    /\ Len(ident.image.faces) = 2

\* the distances from the n-th detected face to every reference encoding
IdentDistances(n) ==
    UNION { { FaceDistance(ident.reference_faces[k].encodings[j], ident.image.faces[n]) :
                j \in 1..Len(ident.reference_faces[k].encodings) } :
            k \in 1..Len(ident.reference_faces) }

\* the persons with a reference encoding at distance d from the n-th face
IdentPersonsAt(n, d) ==
    { ident.reference_faces[k].person :
        k \in { i \in 1..Len(ident.reference_faces) :
                  \E j \in 1..Len(ident.reference_faces[i].encodings) :
                     FaceDistance(ident.reference_faces[i].encodings[j],
                                  ident.image.faces[n]) = d } }

C17_NoCaseDuplicatesOneMarker ==
    fmt.called # "" =>
        /\ \A i, j \in 1..Len(fmt.tags) :
             Lower(fmt.tags[i]) = Lower(fmt.tags[j]) => i = j
        /\ Cardinality({ i \in 1..Len(fmt.tags) :
                           Lower(fmt.tags[i]) = Lower(MarkerTag) }) = 1

\* ========================================================================
\* Properties of the web singletons (checked under SpecWeb)
\* ========================================================================

\* C18: under every interleaving of the request threads at most one
\* PreviewService and at most one FaceRecognizer is constructed; every thread
\* that returned from get_preview_service holds that one instance, initialised,
\* and all threads that returned from face_recognizer hold the same value, the
\* recognizer that was constructed if one was.
C18_OneServiceOneRecognizer ==
    /\ Len(services) <= 1
    /\ recognizers <= 1
    /\ \A t \in Threads :
         got[t].has_service =>
             /\ got[t].service = 1
             /\ services[1].initialised
    /\ \A t, u \in Threads :
         (got[t].has_recognizer /\ got[u].has_recognizer) =>
             got[t].recognizer = got[u].recognizer
    /\ \A t \in Threads :
         got[t].has_recognizer => got[t].recognizer = services[1].face_recognizer

\* a thread that saw no service before the lock finds, inside the lock, the one
\* another thread constructed meanwhile, and a third caller already holds the
\* recognizer of that service
C18_Witness ==
    \E t, u \in Threads :
        /\ tpc[t] = "check_again"
        /\ preview_service = 1
        /\ tpc[u] = "done"
        /\ got[u].service = 1
        /\ got[u].recognizer = 1

\* ========================================================================
\* Properties of the GPS step of process_image (checked under SpecLocate)
\* ========================================================================

\* C19: when the host record carries both latitude and longitude, the EXIF GPS
\* of the downloaded file is not extracted and every resolver call gets exactly
\* the host's coordinates; coordinates of the file reach the resolver only
\* when the host record does not carry the pair.
C19_HostGpsFirst ==
    loc.called =>
        /\ (~loc.image.latitude.none /\ ~loc.image.longitude.none) =>
               /\ ~loc.exif_extracted
               /\ loc.gps_source = "SmugMug API"
               /\ \A i \in DOMAIN loc.resolver_calls :
                      /\ loc.resolver_calls[i].latitude = loc.image.latitude
                      /\ loc.resolver_calls[i].longitude = loc.image.longitude
               /\ loc.cfg.use_exif_location => Len(loc.resolver_calls) = 1
        /\ (loc.gps_source = "EXIF" \/ loc.exif_extracted) =>
               (loc.image.latitude.none \/ loc.image.longitude.none)
        /\ loc.gps_source = "EXIF" =>
               \A i \in DOMAIN loc.resolver_calls :
                   /\ loc.resolver_calls[i].latitude = loc.file.latitude
                   /\ loc.resolver_calls[i].longitude = loc.file.longitude

\* the host gives a point on the equator, the file another one, and the
\* resolver was asked about the host's
C19_Witness ==
    /\ loc.called
    /\ loc.image.latitude = Degrees(0)
    /\ loc.image.longitude = Degrees(41)
    /\ loc.file.has_coordinates
    /\ loc.resolver_calls = <<[latitude |-> Degrees(0), longitude |-> Degrees(41)]>>
    /\ ~loc.exif_extracted

\* C20: when neither the host record nor the file gives a pair of coordinates,
\* no resolver is called, the location is none, there are no location tags,
\* face identification and generation go on, and the result is an error only
\* if the generation failed.
C20_NoGpsNoLocation ==
    (/\ loc.called
     /\ (loc.image.latitude.none \/ loc.image.longitude.none)
     /\ ~loc.file.has_coordinates) =>
        /\ loc.resolver_calls = <<>>
        /\ loc.location_string = <<>>
        /\ loc.location_tags = NoTags
        /\ loc.generation_called
        /\ loc.vision_ok => (loc.success /\ loc.error = "")

\* the host gives a latitude only, the file nothing, and the item succeeded
C20_Witness ==
    /\ loc.called
    /\ loc.image.latitude = Degrees(41)
    /\ loc.image.longitude = NoneCoord
    /\ ~loc.file.has_coordinates
    /\ loc.exif_extracted
    /\ loc.faces_identified
    /\ loc.success

\* ========================================================================
\* Properties of the venue search (checked under SpecGeo)
\* ========================================================================

\* C21: the list search_nearby_pois_overpass returns holds only venues within
\* the radius, closest first, and no two of its entries have the same name.
C21_WithinSortedDistinct ==
    geo.fn = "search_nearby_pois_overpass" =>
        /\ \A i \in DOMAIN geo.venues : geo.venues[i].distance <= PoiRadius
        /\ \A i, j \in DOMAIN geo.venues :
               i < j => geo.venues[i].distance <= geo.venues[j].distance
        /\ \A i, j \in DOMAIN geo.venues :
               i # j => geo.venues[i].name # geo.venues[j].name

\* ========================================================================
\* Properties of the location string (checked under SpecParts)
\* ========================================================================
\* the components in the order of the string, with the county cleaned
Components(building_name, address) ==
    <<building_name, address.city, CountyClean(address.county), address.state,
      address.country>>

RECURSIVE FirstOccurrences(_)
\* a list without the repetitions of its earlier members
FirstOccurrences(seq) ==
    IF seq = <<>> THEN <<>>
    ELSE LET front == FirstOccurrences(SubSeq(seq, 1, Len(seq) - 1))
             x == seq[Len(seq)]
         IN  IF InSeq(x, front) THEN front ELSE Append(front, x)

\* C22: the location string lists the present components in the order venue,
\* city, county, state, country, leaves out the absent ones and holds no value
\* twice, whichever of the components are equal.
C22_OrderedPresentOnce ==
    built.called =>
        /\ built.parts = FirstOccurrences(
               SelectSeq(Components(built.building_name, built.address),
                         LAMBDA c : c # ""))
        /\ \A i, j \in DOMAIN built.parts : i # j => built.parts[i] # built.parts[j]

\* ========================================================================
\* Further properties of the batch (checked under Spec)
\* ========================================================================
\* what process_image computes for an item when every step answers
Computed(image) ==
    ProcessImage(image, TRUE, TRUE, TRUE,
                 [download |-> "ok", vision |-> "ok", update |-> "ok"]).result

\* C23: when the host update raises, after the proposed metadata was computed,
\* the result has success = false and an error, still carries the caption and
\* the keywords computed before, and the update was called once for the item
\* in the run.
C23_FailedUpdateKeepsProposal ==
    \A k \in 1..Len(Returned) :
        excs[k] = "SmugMugAPIError" =>
            /\ ~Returned[k].success
            /\ Returned[k].error # ""
            /\ Returned[k].proposed
            /\ Returned[k].proposed_caption = Computed(images[k]).proposed_caption
            /\ Returned[k].proposed_caption # NoCaption
            /\ Returned[k].proposed_keywords = Computed(images[k]).proposed_keywords
            /\ Returned[k].proposed_keywords # <<>>
            /\ Cardinality({ n \in 1..Len(updates) :
                               updates[n].image_key = images[k].image_key }) = 1

\* the update of the first item failed, the batch went on, and the result of
\* the first item holds its proposal
C23_Witness ==
    /\ pc = "done"
    /\ Len(Results) >= 2
    /\ excs[1] = "SmugMugAPIError"
    /\ Results[1].proposed
    /\ Results[1].error # ""
    /\ Results[2].success

\* ========================================================================
\* Further properties of the matcher (checked under SpecMatch)
\* ========================================================================

\* C24: in every resolver state a call of find_match does no file I/O, leaves
\* the loaded regions and the loaded flag as they were, and its result is the
\* match among the regions that were loaded when it was called.
C24_PureOfLoadedState ==
    fm.called =>
        /\ ~fm.io
        /\ fm.locs = fm.before.locations
        /\ fm.before.loaded
        /\ fm.result = FindMatch(fm.before.locations, fm.latitude)

\* ========================================================================
\* Further properties of the face cache (checked under SpecFaces)
\* ========================================================================
\* the reference files that exist and show a face
Encodable == { f \in RefFileSet : ref[f].exists /\ ref[f].has_face }

\* C25: after a load with caching whose save was completed, and before the
\* directory changes again, the manifest and the encodings on disk hold exactly
\* the reference files that exist and yielded an encoding, the manifest under
\* the current fingerprint and person: entries of deleted files and of files
\* that no longer show a face are gone.
C25_SavedCacheIsExact ==
    (last.valid /\ last.changed = {} /\ ~last.renamed) =>
        /\ manifest_file.state = "complete"
        /\ encodings_file.state = "complete"
        /\ DOMAIN manifest_file.files = Encodable
        /\ DOMAIN encodings_file.files = Encodable
        /\ \A f \in Encodable :
               /\ manifest_file.files[f].fingerprint = Fingerprint(f, ref[f])
               /\ manifest_file.files[f].person = person

\* a save was completed by a load that found, in the cache of an earlier save,
\* the entry of a file deleted since
C25_Witness ==
    /\ last.valid /\ last.changed = {} /\ ~last.renamed
    /\ fr.pc = "idle"
    /\ fr.load.saving
    /\ fr.load.prev.valid
    /\ \E f \in DOMAIN fr.load.cached.files : ~ref[f].exists

\* ========================================================================
\* Properties of the module globals under concurrent batches (checked under
\* SpecShared)
\* ========================================================================

\* C26: for concurrent get_resolver calls one LocationResolver is constructed
\* and every caller gets it, and no two batches read and write
\* _default_resolver or _geocode_cache without a lock held.
C26_OneResolverSynchronised ==
    /\ resolvers <= 1
    /\ \A t \in Threads : held[t].returned => held[t].resolver = 1
    /\ \A a, b \in accesses :
         (/\ a.thread # b.thread
          /\ a.variable = b.variable
          /\ "write" \in {a.kind, b.kind}) => (a.lock # "" /\ b.lock # "")

\* ========================================================================
\* Further properties of the batch counters (checked under Spec)
\* ========================================================================

\* C27: at every iteration boundary of process_album processed + skipped +
\* errors equals len(results), no result has both success and skipped set, so
\* each is counted in one counter, and when process_album has returned the sum
\* equals total_images.
C27_CountersPartitionResults ==
    /\ stats.processed + stats.skipped + stats.errors = Len(Results)
    /\ \A k \in 1..Len(Returned) : ~(Returned[k].success /\ Returned[k].skipped)
    /\ stats.processed = Cardinality({ k \in 1..Len(Results) : Results[k].success })
    /\ stats.skipped = Cardinality({ k \in 1..Len(Results) : Results[k].skipped })
    /\ stats.errors = Cardinality({ k \in 1..Len(Results) : Errored(Results[k]) })
    /\ (pc = "done") =>
           stats.processed + stats.skipped + stats.errors = stats.total_images

\* a batch of two or more items has returned with a skipped and a failed item
C27_Witness ==
    /\ pc = "done"
    /\ stats.total_images >= 2
    /\ stats.skipped >= 1
    /\ stats.errors >= 1
    /\ stats.processed + stats.skipped + stats.errors = stats.total_images

\* ========================================================================
\* Properties of the preview job (checked under SpecPreview)
\* ========================================================================

\* C28: job.results holds at most one result per album image, the three
\* counters together never exceed the number of images, also when
\* process_preview runs more than once for the job, and a commit sends each
\* image's metadata at most once.
C28_OneResultPerImage ==
    /\ \A j, k \in DOMAIN job.results :
         j # k => job.results[j].image_key # job.results[k].image_key
    /\ job.processed_count + job.skipped_count + job.error_count <= job.total_images
    /\ \A j, k \in DOMAIN commit.calls :
         j # k => commit.calls[j].image_key # commit.calls[k].image_key

\* C30: commit_changes writes to the host only when the job's status is
\* complete, any other status being rejected with nothing written, and it
\* sends, in order, the proposed caption and keywords of the results whose
\* status is processed and of no other result.
C30_CommitOnlyCompleteProcessed ==
    commit.called =>
        /\ commit.rejected <=> commit.status # "complete"
        /\ commit.rejected => commit.calls = <<>>
        /\ \A n \in DOMAIN commit.calls :
             \E k \in DOMAIN commit.results :
                 /\ commit.results[k].status = "processed"
                 /\ commit.calls[n].image_key = commit.results[k].image_key
                 /\ commit.calls[n].caption = commit.results[k].proposed_caption
                 /\ commit.calls[n].keywords = commit.results[k].proposed_keywords
        /\ ~commit.rejected =>
             Len(commit.calls) =
                 Cardinality({ k \in DOMAIN commit.results :
                                 commit.results[k].status = "processed" })

\* a commit of a complete job that held a processed, a skipped and a failed
\* result sent the processed one
C30_Witness ==
    /\ commit.called
    /\ ~commit.rejected
    /\ commit.calls # <<>>
    /\ \E k \in DOMAIN commit.results : commit.results[k].status = "skipped"
    /\ \E k \in DOMAIN commit.results : commit.results[k].status = "error"

\* ========================================================================
\* Properties of the image download (checked under SpecFetch)
\* ========================================================================

\* C29: an item is analysed from its own image content only: the file handed
\* to the vision model, the EXIF reader and the face recognizer for an item
\* never holds the bytes of another item, also for two items with the same
\* file name in albums of the same name.
C29_AnalysedFromOwnContent ==
    \A k \in DOMAIN source_of : source_of[k] \in {0, k}

====
